---- MODULE Spec2Model ----
(***************************************************************************)
(* Model of calculate_age: the age-calculation core                        *)
(*   (StandardLeapYearCalculator, StandardMonthDaysCalculator,             *)
(*   InputValidationService and AgeCalculatorServiceImpl of                *)
(*   src/src/core/services/__init__.py, with the value objects, exceptions *)
(*   and ValidationConfig they use), the result entity, the two            *)
(*   repositories, the event publisher, and the controller with its view   *)
(*   model.                                                                *)
(*                                                                         *)
(* The specifications share the variables:                                 *)
(*   SpecCalendar     direct calls of the leap-year and month-day tables   *)
(*   SpecValidator    direct calls of the validator under a drawn config   *)
(*   Spec             calculate_age, statement by statement, against a     *)
(*                    date source whose clock may advance between reads    *)
(*   SpecConcurrent   two callers sharing one engine                       *)
(*   SpecFaultyClock  the engine on a date source with a month outside     *)
(*                    1..12                                                *)
(*   SpecApp          the controller, the repositories and the read-only   *)
(*                    uses of the results                                  *)
(*   SpecController   the controller as the only user of its repository    *)
(*   SpecPublisher    subscribe, unsubscribe and publish called directly   *)
(***************************************************************************)
EXTENDS Integers, Sequences, FiniteSets, TLC

VARIABLES
    config,     \* the ValidationConfig held by InputValidationService._config
    clock,      \* the date the date source reports now: [year, month, day]
    ticks,      \* how many times the clock has advanced (bounded by MaxTicks)
    uuids,      \* how many uuid4 ids have been issued to results
    pc,         \* per caller: its position inside the engine method it runs
    call,       \* per caller: the method, its arguments and its locals
    result,     \* per caller: what its last call returned, or None
    error,      \* per caller: the exception its last call raised, or NoException
    effects,    \* per caller: collaborator calls of the running call (instrumentation)
    probe,      \* last direct call of a pure collaborator: function, arguments, outcome
    heap,       \* the AgeCalculationResult objects handed to the controller, by address
    storage,    \* InMemoryCalculationRepository._storage: id -> stored reference, in insertion order
    file,       \* the list of dicts in the file of FileBasedCalculationRepository
    view,       \* the MainViewModel of the controller
    ctl,        \* the controller: "idle", or "in_service" inside the service call
    out,        \* what the last repository, entity, formatter, publisher or controller call returned
    subscribers, \* SimpleEventPublisher._subscribers: event type -> handlers, in subscription order
    events      \* the publish calls since the last controller call began, or the last direct one (instrumentation)

\* the state outside the engine: entities, repositories and presentation
appVars == <<heap, storage, file, view, ctl, out, subscribers, events>>

vars == <<config, clock, ticks, uuids, pc, call, result, error, effects, probe, heap, storage, file, view, ctl, out, subscribers, events>>

(***************************************************************************)
(* Bounds of the model.                                                    *)
(***************************************************************************)
MaxYearProbe == 410     \* leap-year rule probed on -MaxYearProbe..MaxYearProbe
MaxMonthProbe == 15     \* month tables probed on -MaxMonthProbe..MaxMonthProbe
MaxNameLen == 3         \* names probed: every sequence of NameChars up to this length
MaxAgeProbe == 6        \* ages probed: -MaxAgeProbe..MaxAgeProbe and the default bounds
MaxTicks == 2           \* clock advances per behaviour
MaxResults == 2         \* calculate_age is not entered once this many results exist
MaxSubscriptions == 2   \* subscriptions a publisher holds, over all event types

(***************************************************************************)
(* Python call outcomes and exceptions.                                    *)
(***************************************************************************)
None == [kind |-> "None"]
NoException == [type |-> "none"]
Return(v) == [kind |-> "return", value |-> v]
Raise(e) == [kind |-> "raise", exc |-> e]

\* ValueError(f"Invalid month: {month}")
InvalidMonthError(month) ==
    [type |-> "ValueError", message |-> "Invalid month", arg |-> month]

\* ValueError raised by the value objects' __post_init__
ValueObjectError(message) ==
    [type |-> "ValueError", message |-> message, arg |-> 0]

NameValidationException(name_value, reason) ==
    [type |-> "NameValidationException",
     error_code |-> "NAME_VALIDATION_ERROR",
     field_name |-> "name",
     invalid_value |-> name_value,
     reason |-> reason]

AgeValidationException(age_value, min_age, max_age) ==
    [type |-> "AgeValidationException",
     error_code |-> "AGE_VALIDATION_ERROR",
     field_name |-> "age",
     invalid_value |-> age_value,
     min_age |-> min_age,
     max_age |-> max_age]

(***************************************************************************)
(* StandardLeapYearCalculator.                                             *)
(***************************************************************************)
\* a plausible slip: the Julian rule, no century exception
is_leap_year_julian(year) == year % 4 = 0

\* calendar.isleap(year): Python's % with a positive divisor is the
\* non-negative remainder, as is TLA+'s
is_leap_year(year) ==
    year % 4 = 0 /\ (year % 100 # 0 \/ year % 400 = 0)

get_days_in_year(year) == IF is_leap_year(year) THEN 366 ELSE 365

(***************************************************************************)
(* StandardMonthDaysCalculator.                                            *)
(***************************************************************************)
DAYS_IN_MONTH ==
    [m \in 1..12 |->
        CASE m = 1 -> 31 [] m = 2 -> 28 [] m = 3 -> 31 [] m = 4 -> 30
          [] m = 5 -> 31 [] m = 6 -> 30 [] m = 7 -> 31 [] m = 8 -> 31
          [] m = 9 -> 30 [] m = 10 -> 31 [] m = 11 -> 30 [] m = 12 -> 31]

DAYS_IN_MONTH_LEAP ==
    [m \in 1..12 |->
        CASE m = 1 -> 31 [] m = 2 -> 29 [] m = 3 -> 31 [] m = 4 -> 30
          [] m = 5 -> 31 [] m = 6 -> 30 [] m = 7 -> 31 [] m = 8 -> 31
          [] m = 9 -> 30 [] m = 10 -> 31 [] m = 11 -> 30 [] m = 12 -> 31]

\* a plausible slip: the two tables swapped
get_days_in_month_swapped(month, leap) ==
    IF month < 1 \/ month > 12
    THEN Raise(InvalidMonthError(month))
    ELSE Return((IF leap THEN DAYS_IN_MONTH ELSE DAYS_IN_MONTH_LEAP)[month])

get_days_in_month(month, leap) ==
    IF month < 1 \/ month > 12
    THEN Raise(InvalidMonthError(month))
    ELSE Return((IF leap THEN DAYS_IN_MONTH_LEAP ELSE DAYS_IN_MONTH)[month])

\* the loop `for m in range(lo, hi): total += get_days_in_month(m, leap)`;
\* a raise inside the loop leaves the loop with that exception
RECURSIVE MonthLoop(_, _, _, _)
MonthLoop(m, hi, leap, total) ==
    IF m >= hi
    THEN Return(total)
    ELSE LET d == get_days_in_month(m, leap)
         IN  IF d.kind = "raise"
             THEN d
             ELSE MonthLoop(m + 1, hi, leap, total + d.value)

\* a plausible slip: range(1, month + 1), the month itself counted
get_days_up_to_month_inclusive(month, leap) ==
    IF month < 1 \/ month > 12
    THEN Raise(InvalidMonthError(month))
    ELSE MonthLoop(1, month + 1, leap, 0)

\* a plausible slip: the guard of get_days_up_to_month left out
get_days_up_to_month_unguarded(month, leap) ==
    MonthLoop(1, month, leap, 0)

get_days_up_to_month(month, leap) ==
    IF month < 1 \/ month > 12
    THEN Raise(InvalidMonthError(month))
    ELSE MonthLoop(1, month, leap, 0)

(***************************************************************************)
(* ValidationConfig (src/src/config/application_config.py).                *)
(***************************************************************************)
Letters == {"a", "A", "d"}
Whitespace == {" "}
\* the characters of the default allowed_name_characters that names here use
DefaultAllowedNameCharacters == Letters \cup {" ", "-", "'"}

DefaultConfig ==
    [min_age |-> 0, max_age |-> 150,
     min_name_length |-> 1, max_name_length |-> 100,
     allowed_name_characters |-> DefaultAllowedNameCharacters,
     strict_name_validation |-> FALSE]

\* configurations a configuration file can set (ApplicationConfig._from_dict)
Configs ==
    { DefaultConfig,
      [DefaultConfig EXCEPT !.strict_name_validation = TRUE],
      [DefaultConfig EXCEPT !.min_age = -2, !.max_age = 3,
                            !.min_name_length = 2, !.max_name_length = 2],
      [DefaultConfig EXCEPT !.min_age = 1, !.max_age = 1,
                            !.min_name_length = 0, !.max_name_length = 1,
                            !.strict_name_validation = TRUE],
      [DefaultConfig EXCEPT !.min_age = 2, !.max_age = 30,
                            !.min_name_length = 3, !.max_name_length = 3],
      [DefaultConfig EXCEPT !.min_age = 5, !.max_age = 2,
                            !.min_name_length = 3, !.max_name_length = 1] }

(***************************************************************************)
(* Names are sequences of characters; str.strip() removes the whitespace   *)
(* at both ends.                                                           *)
(***************************************************************************)
RECURSIVE lstrip(_)
lstrip(s) ==
    IF s = <<>> THEN s
    ELSE IF Head(s) \in Whitespace THEN lstrip(Tail(s)) ELSE s

RECURSIVE rstrip(_)
rstrip(s) ==
    IF s = <<>> THEN s
    ELSE IF s[Len(s)] \in Whitespace THEN rstrip(SubSeq(s, 1, Len(s) - 1)) ELSE s

strip(s) == rstrip(lstrip(s))

\* `not name or not name.strip()`
IsBlank(name) == name = <<>> \/ strip(name) = <<>>

(***************************************************************************)
(* InputValidationService.                                                 *)
(***************************************************************************)
validate_name(cfg, name) ==
    IF IsBlank(name) THEN FALSE
    ELSE IF Len(name) < cfg.min_name_length THEN FALSE
    ELSE IF Len(name) > cfg.max_name_length THEN FALSE
    ELSE IF cfg.strict_name_validation
         THEN \A i \in 1..Len(name) : name[i] \in cfg.allowed_name_characters
         ELSE TRUE

validate_age(cfg, age) == cfg.min_age <= age /\ age <= cfg.max_age

\* a plausible slip: the length checks made before the emptiness check
validate_name_with_exception_reordered(cfg, name) ==
    IF Len(name) < cfg.min_name_length
    THEN Raise(NameValidationException(name, "too_short"))
    ELSE IF Len(name) > cfg.max_name_length
    THEN Raise(NameValidationException(name, "too_long"))
    ELSE IF IsBlank(name)
    THEN Raise(NameValidationException(name, "empty_value"))
    ELSE Return(None)

validate_name_with_exception(cfg, name) ==
    IF IsBlank(name)
    THEN Raise(NameValidationException(name, "empty_value"))
    ELSE IF Len(name) < cfg.min_name_length
    THEN Raise(NameValidationException(name, "too_short"))
    ELSE IF Len(name) > cfg.max_name_length
    THEN Raise(NameValidationException(name, "too_long"))
    ELSE Return(None)

\* a plausible slip: the upper bound itself rejected
validate_age_with_exception_exclusive(cfg, age) ==
    IF age < cfg.min_age \/ age >= cfg.max_age
    THEN Raise(AgeValidationException(age, cfg.min_age, cfg.max_age))
    ELSE Return(None)

validate_age_with_exception(cfg, age) ==
    IF age < cfg.min_age \/ age > cfg.max_age
    THEN Raise(AgeValidationException(age, cfg.min_age, cfg.max_age))
    ELSE Return(None)

\* the two messages of validate_request, with the bounds they quote
NameMessage(cfg) ==
    [field |-> "name", text |-> "Invalid name: must be lo-hi characters",
     lo |-> cfg.min_name_length, hi |-> cfg.max_name_length]

AgeMessage(cfg) ==
    [field |-> "age", text |-> "Invalid age: must be between lo and hi",
     lo |-> cfg.min_age, hi |-> cfg.max_age]

\* a plausible slip: the first error returned at once
validate_request_fail_fast(cfg, name, age_in_years) ==
    IF ~validate_name(cfg, name) THEN <<NameMessage(cfg)>>
    ELSE IF ~validate_age(cfg, age_in_years) THEN <<AgeMessage(cfg)>>
    ELSE <<>>

\* validate_request(request), request = CalculationRequest(name, age_in_years)
validate_request(cfg, name, age_in_years) ==
    LET errors1 == IF ~validate_name(cfg, name)
                   THEN <<NameMessage(cfg)>> ELSE <<>>
    IN  IF ~validate_age(cfg, age_in_years)
        THEN Append(errors1, AgeMessage(cfg)) ELSE errors1

(***************************************************************************)
(* Value objects and the result entity.                                    *)
(***************************************************************************)
\* PersonName.__post_init__
PersonName(value) ==
    IF IsBlank(value)
    THEN Raise(ValueObjectError("Name cannot be empty"))
    ELSE Return(value)

\* a plausible slip: the sign check of Age left out
Age_unchecked(years) == Return(years)

\* Age.__post_init__
Age(years) ==
    IF years < 0
    THEN Raise(ValueObjectError("Age cannot be negative"))
    ELSE Return(years)

\* AgeCalculationResult(...) as calculate_age constructs it: the value
\* objects are constructed first, in argument order; id is the uuid4 of the
\* default factory and calculation_timestamp the instant of construction
AgeCalculationResult(id, name, age_years, months, days, weeks, hours, minutes, now, birth_year, current_year) ==
    IF PersonName(name).kind = "raise" THEN PersonName(name)
    ELSE IF Age(age_years).kind = "raise" THEN Age(age_years)
    ELSE Return([kind |-> "AgeCalculationResult",
                 id |-> id,
                 name |-> name,
                 age_years |-> age_years,
                 age_months |-> months,
                 age_days |-> days,
                 age_weeks |-> weeks,
                 age_hours |-> hours,
                 age_minutes |-> minutes,
                 calculation_timestamp |-> now,
                 birth_year |-> birth_year,
                 current_year |-> current_year])

\* the int a convenience entry point returns
IntResult(n) == [kind |-> "int", value |-> n]

(***************************************************************************)
(* AgeCalculatorServiceImpl.                                               *)
(***************************************************************************)
\* the loop `for year in range(lo, hi): total_days += get_days_in_year(year)`
\* started at total_days = 0: the days of the years lo..hi-1 added in range
\* order; the range is halved at each level so that a span of 150 years
\* nests 8 deep instead of 150
RECURSIVE YearLoop(_, _)
YearLoop(lo, hi) ==
    IF lo >= hi THEN 0
    ELSE IF hi - lo = 1 THEN get_days_in_year(lo)
    ELSE LET mid == lo + ((hi - lo) \div 2)
         IN  YearLoop(lo, mid) + YearLoop(mid, hi)

\* a plausible slip: the birth year itself not counted
calculate_total_days_skipping_birth_year(age_years, current_year, current_month, current_day) ==
    LET birth_year == current_year - age_years
        years == YearLoop(birth_year + 1, current_year)
        months == MonthLoop(1, current_month, is_leap_year(current_year), years)
    IN  IF months.kind = "raise" THEN months
        ELSE Return(months.value + current_day)

\* AgeCalculatorServiceImpl._calculate_total_days
calculate_total_days(age_years, current_year, current_month, current_day) ==
    LET birth_year == current_year - age_years
        years == YearLoop(birth_year, current_year)
        is_current_leap == is_leap_year(current_year)
        months == MonthLoop(1, current_month, is_current_leap, years)
    IN  IF months.kind = "raise" THEN months
        ELSE Return(months.value + current_day)

\* a plausible slip: weeks rounded up
total_weeks_rounded_up(total_days) == (total_days + 6) \div 7

total_months(age_years, current_month) == age_years * 12 + current_month
total_weeks(total_days) == total_days \div 7
total_hours(total_days) == total_days * 24
total_minutes(hours) == hours * 60

\* a plausible slip: the day total kept in an attribute of the engine that
\* is not reset, so each earlier result adds to the next call's days
derive_result_carrying_over(id, name, age_years, total_days, current_year, current_month, now) ==
    LET carried == total_days + (id - 1)
        birth_year == current_year - age_years
    IN  AgeCalculationResult(id, name, age_years,
                             total_months(age_years, current_month), carried,
                             total_weeks(carried), total_hours(carried),
                             total_minutes(total_hours(carried)), now,
                             birth_year, current_year)

\* calculate_age from `total_months = ...` to the return: the derived units
\* and the construction of the result
derive_result(id, name, age_years, total_days, current_year, current_month, now) ==
    LET months == total_months(age_years, current_month)
        weeks == total_weeks(total_days)
        hours == total_hours(total_days)
        minutes == total_minutes(hours)
        birth_year == current_year - age_years
    IN  AgeCalculationResult(id, name, age_years, months, total_days, weeks,
                             hours, minutes, now, birth_year, current_year)

\* a plausible slip: months counted from zero
months_lived_zero_based(age_years, current_month) ==
    age_years * 12 + current_month - 1

\* the return expression of calculate_months_lived
months_lived(age_years, current_month) == age_years * 12 + current_month

\* how many calendar calls _calculate_total_days makes: get_days_in_year
\* once per year of the loop, is_leap_year once, get_days_in_month once per
\* month of the loop up to and including the one that raises
CalendarCalls(age_years, current_month) ==
    (IF age_years > 0 THEN age_years ELSE 0) + 1
    + (IF current_month <= 1 THEN 0
       ELSE IF current_month <= 13 THEN current_month - 1 ELSE 13)

(***************************************************************************)
(* The date source.                                                        *)
(***************************************************************************)
Date(y, m, d) == [year |-> y, month |-> m, day |-> d]

\* the dates the date source may report at the start
StartDates ==
    { Date(2024, 3, 15), Date(2023, 12, 31), Date(2024, 2, 28),
      Date(2024, 12, 31), Date(1900, 2, 28), Date(2000, 1, 1),
      Date(120, 1, 31) }

\* the clock passing midnight
NextDay(d) ==
    IF d.day < get_days_in_month(d.month, is_leap_year(d.year)).value
    THEN Date(d.year, d.month, d.day + 1)
    ELSE IF d.month < 12 THEN Date(d.year, d.month + 1, 1)
    ELSE Date(d.year + 1, 1, 1)

(***************************************************************************)
(* Inputs.                                                                 *)
(***************************************************************************)
NameChars == {"a", " ", "1"}
Ada == <<"A", "d", "a">>

RECURSIVE SeqsUpTo(_, _)
SeqsUpTo(S, n) ==
    IF n = 0 THEN {<<>>}
    ELSE LET shorter == SeqsUpTo(S, n - 1)
         IN  shorter \cup {Append(s, c) : s \in shorter, c \in S}

Names == SeqsUpTo(NameChars, MaxNameLen) \cup {Ada}
Ages == (-MaxAgeProbe..MaxAgeProbe) \cup {30, 149, 150, 151}
Years == (-MaxYearProbe..MaxYearProbe) \cup {1900, 1996, 2000, 2023, 2024, 2100}
Months == -MaxMonthProbe..MaxMonthProbe

\* the names and ages calculate_age is called with
EngineNames == {<<>>, <<" ">>, <<"a">>, <<" ", "a">>, <<"a", "1", "a">>, Ada}
EngineAges == Ages

(***************************************************************************)
(* Entities, repositories and presentation: the data and the pure parts.   *)
(* An Optional value is a sequence: Nothing is None, Some(v) holds v.      *)
(***************************************************************************)
Nothing == <<>>
Some(v) == <<v>>

\* the truth value Python gives an Optional int read from a dict: None and
\* 0 are false
IsTruthyInt(field) == field # Nothing /\ field[1] # 0

\* the truth value Python gives an Optional str read from a dict: None and
\* "" are false
IsTruthyStr(field) == field # Nothing /\ field[1] # <<>>

\* AgeCalculationResult.to_dict of a result the engine built: every value
\* object is present (and an object is true whatever it holds), so each key
\* carries the wrapped value; the timestamp goes in as its text, cut to the
\* second; json.dump and json.load keep ints and strs
to_dict(r) ==
    [id |-> r.id,
     name |-> Some(r.name),
     age_years |-> Some(r.age_years),
     age_months |-> Some(r.age_months),
     age_days |-> Some(r.age_days),
     age_weeks |-> Some(r.age_weeks),
     age_hours |-> Some(r.age_hours),
     age_minutes |-> Some(r.age_minutes),
     calculation_timestamp |-> [text_of |-> r.calculation_timestamp],
     birth_year |-> Some(r.birth_year),
     current_year |-> Some(r.current_year)]

\* a value object around the int of a key, or None when the value is false
WrapIfTruthy(field) == IF IsTruthyInt(field) THEN field ELSE Nothing

\* FileBasedCalculationRepository._dict_to_result; the rebuilt entity takes
\* a fresh calculation_timestamp (now), the dict's one is not passed
dict_to_result(data, now) ==
    LET name == IF IsTruthyStr(data.name) THEN PersonName(data.name[1])
                ELSE Return(Nothing)
        age == IF IsTruthyInt(data.age_years) THEN Age(data.age_years[1])
               ELSE Return(Nothing)
    IN  IF name.kind = "raise" THEN name
        ELSE IF age.kind = "raise" THEN age
        ELSE Return(
            [kind |-> "AgeCalculationResult",
             id |-> data.id,
             name |-> IF IsTruthyStr(data.name) THEN data.name ELSE Nothing,
             age_years |-> WrapIfTruthy(data.age_years),
             age_months |-> WrapIfTruthy(data.age_months),
             age_days |-> WrapIfTruthy(data.age_days),
             age_weeks |-> WrapIfTruthy(data.age_weeks),
             age_hours |-> WrapIfTruthy(data.age_hours),
             age_minutes |-> WrapIfTruthy(data.age_minutes),
             calculation_timestamp |-> now,
             birth_year |-> data.birth_year,
             current_year |-> data.current_year])

\* the index of the first entry with the id in a list of entries, 0 if none
IndexOfId(entries, id) ==
    IF \E i \in 1..Len(entries) : entries[i].id = id
    THEN CHOOSE i \in 1..Len(entries) :
            /\ entries[i].id = id
            /\ \A j \in 1..(i - 1) : entries[j].id # id
    ELSE 0

\* the entries whose id is not the given one, in order
RECURSIVE WithoutId(_, _)
WithoutId(entries, id) ==
    IF entries = <<>> THEN <<>>
    ELSE IF Head(entries).id = id THEN WithoutId(Tail(entries), id)
    ELSE <<Head(entries)>> \o WithoutId(Tail(entries), id)

\* dict assignment d[key] = value and the replace-or-append of
\* FileBasedCalculationRepository.save: an entry with the id is replaced in
\* place, a new one goes to the end
Upsert(entries, entry) ==
    LET i == IndexOfId(entries, entry.id)
    IN  IF i = 0 THEN Append(entries, entry)
        ELSE [entries EXCEPT ![i] = entry]

\* str.title on the characters names use here: a cased character is upper
\* case after an uncased one (or at the start), lower case otherwise
UpperOf(ch) == IF ch = "a" THEN "A" ELSE IF ch = "d" THEN "D" ELSE ch
LowerOf(ch) == IF ch = "A" THEN "a" ELSE IF ch = "D" THEN "d" ELSE ch
IsCased(ch) == ch \in {"a", "A", "d", "D"}
title(s) ==
    [i \in 1..Len(s) |->
        IF ~IsCased(s[i]) THEN s[i]
        ELSE IF i = 1 \/ ~IsCased(s[i - 1]) THEN UpperOf(s[i])
        ELSE LowerOf(s[i])]

\* PersonName.get_display_name
get_display_name(value) == title(strip(value))

\* the decimal digits of a natural number
DigitChars == <<"0", "1", "2", "3", "4", "5", "6", "7", "8", "9">>
RECURSIVE decimal(_)
decimal(n) ==
    IF n < 10 THEN <<DigitChars[n + 1]>>
    ELSE Append(decimal(n \div 10), DigitChars[(n % 10) + 1])

\* the format spec "," on digits: a comma before every group of three
RECURSIVE group_thousands(_)
group_thousands(digits) ==
    IF Len(digits) <= 3 THEN digits
    ELSE group_thousands(SubSeq(digits, 1, Len(digits) - 3))
         \o <<",">> \o SubSeq(digits, Len(digits) - 2, Len(digits))

\* f"{n}" and f"{n:,}"
format_int(n) == IF n < 0 THEN <<"-">> \o decimal(-n) ELSE decimal(n)
format_thousands(n) ==
    IF n < 0 THEN <<"-">> \o group_thousands(decimal(-n))
    ELSE group_thousands(decimal(n))

\* ConsoleResultFormatter.format_for_display of a result the engine built
\* (no value object is missing): the lines, each a label and its text
format_for_display(r) ==
    << [label |-> "Name", text |-> get_display_name(r.name)],
       [label |-> "Age in Years", text |-> format_int(r.age_years)],
       [label |-> "Age in Months", text |-> format_thousands(r.age_months)],
       [label |-> "Age in Days", text |-> format_thousands(r.age_days)],
       [label |-> "Age in Weeks", text |-> format_thousands(r.age_weeks)],
       [label |-> "Age in Hours", text |-> format_thousands(r.age_hours)],
       [label |-> "Age in Minutes", text |-> format_thousands(r.age_minutes)] >>

\* int(text) on the characters age texts use here: surrounding whitespace
\* is dropped, one sign is allowed, the rest must be digits
IsDigit(ch) == \E i \in 1..10 : DigitChars[i] = ch
DigitValue(ch) == (CHOOSE i \in 1..10 : DigitChars[i] = ch) - 1
RECURSIVE digits_value(_)
digits_value(digits) ==
    IF digits = <<>> THEN 0
    ELSE 10 * digits_value(SubSeq(digits, 1, Len(digits) - 1))
         + DigitValue(digits[Len(digits)])
int_parse(text) ==
    LET stripped == strip(text)
        signed == stripped # <<>> /\ Head(stripped) \in {"-", "+"}
        digits == IF signed THEN Tail(stripped) ELSE stripped
    IN  IF digits = <<>> \/ \E i \in 1..Len(digits) : ~IsDigit(digits[i])
        THEN Raise(ValueObjectError("invalid literal for int()"))
        ELSE IF signed /\ Head(stripped) = "-"
        THEN Return(-digits_value(digits))
        ELSE Return(digits_value(digits))

\* a message shown to the user: its text with {} for each argument, and the
\* message of the exception it reports, if any
Message(text, args, about) == [text |-> text, args |-> args, about |-> about]
NoMessage == Message("", <<>>, "")

\* the message of an exception of the engine
message_of(e) ==
    IF e.type = "NameValidationException"
    THEN IF e.reason = "empty_value"
         THEN Message("Name cannot be empty", <<>>, "")
         ELSE IF e.reason = "too_short"
         THEN Message("Name must be at least {} characters",
                      <<config.min_name_length>>, "")
         ELSE Message("Name cannot exceed {} characters",
                      <<config.max_name_length>>, "")
    ELSE IF e.type = "AgeValidationException"
    THEN Message("Age must be between {} and {}", <<e.min_age, e.max_age>>, "")
    ELSE IF e.message = "Invalid month"
    THEN Message("Invalid month: {}", <<e.arg>>, "")
    ELSE Message(e.message, <<>>, "")

\* MainViewModel(): InputViewModel, no result, ErrorViewModel, IDLE, no
\* history
ErrorViewModel ==
    [message |-> NoMessage, field_name |-> Nothing, error_code |-> Nothing]
MainViewModel ==
    [input |-> [name |-> <<>>, age |-> <<>>],
     result |-> Nothing,
     error |-> ErrorViewModel,
     state |-> "IDLE",
     calculation_history |-> <<>>]

\* MainViewModel.set_loading
set_loading(vm) == [vm EXCEPT !.state = "LOADING", !.error = ErrorViewModel]

\* MainViewModel.set_success
set_success(vm, result_vm) ==
    [vm EXCEPT !.state = "SUCCESS", !.result = Some(result_vm),
               !.error = ErrorViewModel]

\* a plausible slip: the result of the previous calculation left in place
set_error_keeping_result(vm, message, field_name) ==
    [vm EXCEPT !.state = "ERROR",
               !.error.message = message,
               !.error.field_name = field_name]

\* MainViewModel.set_error
set_error(vm, message, field_name) ==
    [vm EXCEPT !.state = "ERROR",
               !.error.message = message,
               !.error.field_name = field_name,
               !.result = Nothing]

\* MainViewModel.reset
reset(vm) ==
    [vm EXCEPT !.input = [name |-> <<>>, age |-> <<>>], !.result = Nothing,
               !.error = ErrorViewModel, !.state = "IDLE"]

\* MainController._map_to_view_model of a result the engine built;
\* `birth_year or 0` and `current_year or 0` leave any year but 0 as it is
map_to_view_model(r) ==
    [kind |-> "ResultViewModel",
     name |-> get_display_name(r.name),
     years |-> r.age_years,
     months |-> r.age_months,
     days |-> r.age_days,
     weeks |-> r.age_weeks,
     hours |-> r.age_hours,
     minutes |-> r.age_minutes,
     birth_year |-> r.birth_year,
     current_year |-> r.current_year]

\* the return value of the call `fn`
Out(fn, value) == [fn |-> fn, value |-> value]
NoOut == Out("none", Nothing)

(***************************************************************************)
(* SimpleEventPublisher.  A handler is named by what it does when called;  *)
(* a handler is made for the event type it is subscribed to, so the ones   *)
(* that unsubscribe do so from the type being published.                   *)
(***************************************************************************)
CALCULATION_STARTED == "calculation.started"
CALCULATION_COMPLETED == "calculation.completed"
CALCULATION_FAILED == "calculation.failed"
VALIDATION_FAILED == "validation.failed"
\* with UI_INITIALIZED and UI_CLOSED, which the controller never publishes
EventTypes ==
    { CALCULATION_STARTED, CALCULATION_COMPLETED, CALCULATION_FAILED,
      VALIDATION_FAILED, "ui.initialized", "ui.closed" }

\* "print" prints the data (the handlers of ApplicationBootstrapper),
\* "fail" raises, "once" unsubscribes itself, "drop_print" unsubscribes
\* the handler "print"
Handlers == {"print", "fail", "once", "drop_print"}

\* SimpleEventPublisher.__init__: no key, which reads as no handler
NoSubscribers == [t \in EventTypes |-> <<>>]

Count(h, handlers) == Cardinality({i \in 1..Len(handlers) : handlers[i] = h})

\* list.remove(handler): the first occurrence taken out
RemoveFirst(handlers, h) ==
    LET i == CHOOSE k \in 1..Len(handlers) :
                 /\ handlers[k] = h
                 /\ \A j \in 1..(k - 1) : handlers[j] # h
    IN  SubSeq(handlers, 1, i - 1) \o SubSeq(handlers, i + 1, Len(handlers))

\* subscribe(event_type, handler)
subscribe(subs, event_type, handler) ==
    [subs EXCEPT ![event_type] = Append(@, handler)]

\* unsubscribe(event_type, handler): the new subscribers and the value
\* returned, False when list.remove raises ValueError
unsubscribe(subs, event_type, handler) ==
    IF Count(handler, subs[event_type]) > 0
    THEN [subscribers |-> [subs EXCEPT ![event_type] = RemoveFirst(@, handler)],
          value |-> TRUE]
    ELSE [subscribers |-> subs, value |-> FALSE]

\* handler(data), inside the try of publish: what it leaves of the
\* subscribers; an exception it raises is caught and printed
call_handler(subs, event_type, handler) ==
    IF handler = "once"
    THEN unsubscribe(subs, event_type, "once").subscribers
    ELSE IF handler = "drop_print"
    THEN unsubscribe(subs, event_type, "print").subscribers
    ELSE subs

\* the for loop of publish: the list iterator keeps an index into the
\* list itself, which the handlers may shorten meanwhile
RECURSIVE publish_from(_, _, _, _)
publish_from(subs, event_type, i, invoked) ==
    IF i > Len(subs[event_type])
    THEN [subscribers |-> subs, invoked |-> invoked]
    ELSE LET handler == subs[event_type][i]
         IN  publish_from(call_handler(subs, event_type, handler),
                          event_type, i + 1, Append(invoked, handler))

\* publish(event_type, data)
publish(subs, event_type) == publish_from(subs, event_type, 1, <<>>)

\* one publish call as the log keeps it: the type, the handlers subscribed
\* to it when the call began and the handlers called, in order
Published(subs, event_type) ==
    [type |-> event_type, subscribed |-> subs[event_type],
     invoked |-> publish(subs, event_type).invoked]

\* ApplicationBootstrapper.setup_events: one printing handler for each of
\* calculation.completed and calculation.failed
AppSubscribers ==
    subscribe(subscribe(NoSubscribers, CALCULATION_COMPLETED, "print"),
              CALCULATION_FAILED, "print")

\* the application after construction: no result yet, both repositories
\* empty (the file holds []), a fresh view model, the controller idle,
\* the handlers of the bootstrapper subscribed and nothing published
AppStart ==
    /\ subscribers = AppSubscribers
    /\ events = <<>>
    /\ heap = <<>>
    /\ storage = <<>>
    /\ file = <<>>
    /\ view = MainViewModel
    /\ ctl = "idle"
    /\ out = NoOut

\* the callers that share the engine, its collaborators and the date source
Callers == {"c1", "c2"}
MainCaller == "c1"

NoCall ==
    [op |-> "none", name |-> <<>>, age_years |-> 0, current_year |-> 0,
     current_month |-> 0, current_day |-> 0, total_days |-> 0]
NoEffects ==
    [date_reads |-> 0, calendar_calls |-> 0, results_created |-> 0,
     seen_year |-> 0, seen_month |-> 0, seen_day |-> 0]
NoProbe == [fn |-> "none"]

\* a plausible slip: current_year, current_month and current_day kept as
\* attributes of the shared engine instance instead of locals
LocalsOnInstance(c) == Callers

\* whose locals an assignment in caller c's running method writes:
\* current_year, current_month and current_day are locals of the call
LocalsWrittenBy(c) == {c}

\* the local `field` assigned `value` by caller c
AssignLocal(c, field, value) ==
    [k \in Callers |->
        IF k \in LocalsWrittenBy(c)
        THEN [call[k] EXCEPT ![field] = value]
        ELSE call[k]]

(***************************************************************************)
(* Spec: calculate_age, statement by statement.                            *)
(***************************************************************************)
Init ==
    /\ config \in Configs
    /\ clock \in StartDates
    /\ ticks = 0
    /\ uuids = 0
    /\ pc = [c \in Callers |-> "idle"]
    /\ call = [c \in Callers |-> NoCall]
    /\ result = [c \in Callers |-> None]
    /\ error = [c \in Callers |-> NoException]
    /\ effects = [c \in Callers |-> NoEffects]
    /\ AppStart
    /\ probe = NoProbe

\* the engine's part of entering calculate_age(name, age_years)
EnterCalculateAge(c, name, age_years) ==
    /\ pc[c] \in {"idle", "returned", "raised"}
    /\ uuids < MaxResults
    /\ pc' = [pc EXCEPT ![c] = "validate"]
    /\ call' = [call EXCEPT ![c] = [NoCall EXCEPT !.op = "calculate_age",
                                     !.name = name, !.age_years = age_years]]
    /\ result' = [result EXCEPT ![c] = None]
    /\ error' = [error EXCEPT ![c] = NoException]
    /\ effects' = [effects EXCEPT ![c] = NoEffects]

\* caller c enters calculate_age(name, age_years)
CallCalculateAge(c, name, age_years) ==
    /\ EnterCalculateAge(c, name, age_years)
    /\ UNCHANGED <<config, clock, ticks, uuids, probe, appVars>>

\* caller c enters calculate_days_lived(age_years)
CallCalculateDaysLived(c, age_years) ==
    /\ pc[c] \in {"idle", "returned", "raised"}
    /\ pc' = [pc EXCEPT ![c] = "read_year"]
    /\ call' = [call EXCEPT ![c] = [NoCall EXCEPT !.op = "calculate_days_lived",
                                     !.age_years = age_years]]
    /\ result' = [result EXCEPT ![c] = None]
    /\ error' = [error EXCEPT ![c] = NoException]
    /\ effects' = [effects EXCEPT ![c] = NoEffects]
    /\ UNCHANGED <<config, clock, ticks, uuids, probe, appVars>>

\* caller c enters calculate_months_lived(age_years)
CallCalculateMonthsLived(c, age_years) ==
    /\ pc[c] \in {"idle", "returned", "raised"}
    /\ pc' = [pc EXCEPT ![c] = "read_month"]
    /\ call' = [call EXCEPT ![c] = [NoCall EXCEPT !.op = "calculate_months_lived",
                                     !.age_years = age_years]]
    /\ result' = [result EXCEPT ![c] = None]
    /\ error' = [error EXCEPT ![c] = NoException]
    /\ effects' = [effects EXCEPT ![c] = NoEffects]
    /\ UNCHANGED <<config, clock, ticks, uuids, probe, appVars>>

\* a plausible slip: the date source read before the inputs are validated
ValidateAfterReadingDate(c) ==
    /\ pc[c] = "validate"
    /\ LET n == validate_name_with_exception(config, call[c].name)
           a == validate_age_with_exception(config, call[c].age_years)
       IN  /\ effects' = [effects EXCEPT ![c].date_reads = @ + 1,
                                         ![c].seen_year = clock.year]
           /\ IF n.kind = "raise"
              THEN /\ pc' = [pc EXCEPT ![c] = "raised"]
                   /\ error' = [error EXCEPT ![c] = n.exc]
                   /\ call' = call
              ELSE IF a.kind = "raise"
              THEN /\ pc' = [pc EXCEPT ![c] = "raised"]
                   /\ error' = [error EXCEPT ![c] = a.exc]
                   /\ call' = call
              ELSE /\ pc' = [pc EXCEPT ![c] = "read_month"]
                   /\ error' = error
                   /\ call' = AssignLocal(c, "current_year", clock.year)
    /\ UNCHANGED <<config, clock, ticks, uuids, result, probe, appVars>>

\* the try block: validate_name_with_exception, then
\* validate_age_with_exception; either exception leaves calculate_age
Validate(c) ==
    /\ pc[c] = "validate"
    /\ LET n == validate_name_with_exception(config, call[c].name)
           a == validate_age_with_exception(config, call[c].age_years)
       IN  IF n.kind = "raise"
           THEN /\ pc' = [pc EXCEPT ![c] = "raised"]
                /\ error' = [error EXCEPT ![c] = n.exc]
           ELSE IF a.kind = "raise"
           THEN /\ pc' = [pc EXCEPT ![c] = "raised"]
                /\ error' = [error EXCEPT ![c] = a.exc]
           ELSE /\ pc' = [pc EXCEPT ![c] = "read_year"]
                /\ error' = error
    /\ UNCHANGED <<config, clock, ticks, uuids, call, result, effects, probe, appVars>>

\* current_year = self._datetime_provider.get_current_year()
ReadYear(c) ==
    /\ pc[c] = "read_year"
    /\ call' = AssignLocal(c, "current_year", clock.year)
    /\ effects' = [effects EXCEPT ![c].date_reads = @ + 1,
                                  ![c].seen_year = clock.year]
    /\ pc' = [pc EXCEPT ![c] = "read_month"]
    /\ UNCHANGED <<config, clock, ticks, uuids, result, error, probe, appVars>>

\* current_month = self._datetime_provider.get_current_month(); it is the
\* only read of calculate_months_lived
ReadMonth(c) ==
    /\ pc[c] = "read_month"
    /\ call' = AssignLocal(c, "current_month", clock.month)
    /\ effects' = [effects EXCEPT ![c].date_reads = @ + 1,
                                  ![c].seen_month = clock.month]
    /\ pc' = [pc EXCEPT ![c] =
                IF call[c].op = "calculate_months_lived"
                THEN "compute" ELSE "read_day"]
    /\ UNCHANGED <<config, clock, ticks, uuids, result, error, probe, appVars>>

\* current_day = self._datetime_provider.get_current_day()
ReadDay(c) ==
    /\ pc[c] = "read_day"
    /\ call' = AssignLocal(c, "current_day", clock.day)
    /\ effects' = [effects EXCEPT ![c].date_reads = @ + 1,
                                  ![c].seen_day = clock.day]
    /\ pc' = [pc EXCEPT ![c] = "compute"]
    /\ UNCHANGED <<config, clock, ticks, uuids, result, error, probe, appVars>>

\* calculate_age: the arithmetic and the construction of the result
Compute(c) ==
    /\ pc[c] = "compute"
    /\ call[c].op = "calculate_age"
    /\ LET days == calculate_total_days(call[c].age_years, call[c].current_year,
                                        call[c].current_month, call[c].current_day)
           calendar_calls == CalendarCalls(call[c].age_years, call[c].current_month)
       IN  IF days.kind = "raise"
           THEN /\ pc' = [pc EXCEPT ![c] = "raised"]
                /\ error' = [error EXCEPT ![c] = days.exc]
                /\ effects' = [effects EXCEPT ![c].calendar_calls = calendar_calls]
                /\ UNCHANGED <<call, result, uuids>>
           ELSE LET built == derive_result(uuids + 1, call[c].name,
                                 call[c].age_years, days.value,
                                 call[c].current_year, call[c].current_month,
                                 ticks)
                IN  /\ call' = [call EXCEPT ![c].total_days = days.value]
                    /\ effects' = [effects EXCEPT
                            ![c].calendar_calls = calendar_calls,
                            ![c].results_created =
                                IF built.kind = "return" THEN 1 ELSE 0]
                    /\ IF built.kind = "raise"
                       THEN /\ pc' = [pc EXCEPT ![c] = "raised"]
                            /\ error' = [error EXCEPT ![c] = built.exc]
                            /\ UNCHANGED <<result, uuids>>
                       ELSE /\ pc' = [pc EXCEPT ![c] = "returned"]
                            /\ result' = [result EXCEPT ![c] = built.value]
                            /\ uuids' = uuids + 1
                            /\ error' = error
    /\ UNCHANGED <<config, clock, ticks, probe, appVars>>

\* calculate_days_lived: return self._calculate_total_days(...)
ComputeDaysLived(c) ==
    /\ pc[c] = "compute"
    /\ call[c].op = "calculate_days_lived"
    /\ LET days == calculate_total_days(call[c].age_years, call[c].current_year,
                                        call[c].current_month, call[c].current_day)
       IN  /\ effects' = [effects EXCEPT ![c].calendar_calls =
                    CalendarCalls(call[c].age_years, call[c].current_month)]
           /\ IF days.kind = "raise"
              THEN /\ pc' = [pc EXCEPT ![c] = "raised"]
                   /\ error' = [error EXCEPT ![c] = days.exc]
                   /\ UNCHANGED <<call, result>>
              ELSE /\ pc' = [pc EXCEPT ![c] = "returned"]
                   /\ call' = [call EXCEPT ![c].total_days = days.value]
                   /\ result' = [result EXCEPT ![c] = IntResult(days.value)]
                   /\ error' = error
    /\ UNCHANGED <<config, clock, ticks, uuids, probe, appVars>>

\* calculate_months_lived: return age_years * 12 + current_month
ComputeMonthsLived(c) ==
    /\ pc[c] = "compute"
    /\ call[c].op = "calculate_months_lived"
    /\ pc' = [pc EXCEPT ![c] = "returned"]
    /\ result' = [result EXCEPT ![c] =
            IntResult(months_lived(call[c].age_years, call[c].current_month))]
    /\ UNCHANGED <<config, clock, ticks, uuids, call, error, effects, probe, appVars>>

\* midnight passes at the date source
Tick ==
    /\ ticks < MaxTicks
    /\ ticks' = ticks + 1
    /\ clock' = NextDay(clock)
    /\ UNCHANGED <<config, uuids, pc, call, result, error, effects, probe, appVars>>

Next ==
    \/ \E name \in EngineNames, age_years \in EngineAges :
           CallCalculateAge(MainCaller, name, age_years)
    \/ Validate(MainCaller)
    \/ ReadYear(MainCaller)
    \/ ReadMonth(MainCaller)
    \/ ReadDay(MainCaller)
    \/ Compute(MainCaller)
    \/ Tick

Spec == Init /\ [][Next]_vars

(***************************************************************************)
(* SpecConcurrent: two callers run calculate_age, calculate_days_lived and *)
(* calculate_months_lived on the same engine, validator, calculators and   *)
(* date source, their statements interleaved with each other and with the  *)
(* clock.                                                                  *)
(***************************************************************************)
ConcurrentNames == {Ada, <<"a">>}
ConcurrentAges == {-1, 0, 1}
ConcurrentDates == {Date(2023, 12, 31), Date(2024, 2, 28)}

InitConcurrent ==
    /\ config = DefaultConfig
    /\ clock \in ConcurrentDates
    /\ ticks = 0
    /\ uuids = 0
    /\ pc = [c \in Callers |-> "idle"]
    /\ call = [c \in Callers |-> NoCall]
    /\ result = [c \in Callers |-> None]
    /\ error = [c \in Callers |-> NoException]
    /\ effects = [c \in Callers |-> NoEffects]
    /\ AppStart
    /\ probe = NoProbe

NextConcurrent ==
    \/ \E c \in Callers, name \in ConcurrentNames, age_years \in ConcurrentAges :
           CallCalculateAge(c, name, age_years)
    \/ \E c \in Callers, age_years \in ConcurrentAges :
           CallCalculateDaysLived(c, age_years)
    \/ \E c \in Callers, age_years \in ConcurrentAges :
           CallCalculateMonthsLived(c, age_years)
    \/ \E c \in Callers : Validate(c)
    \/ \E c \in Callers : ReadYear(c)
    \/ \E c \in Callers : ReadMonth(c)
    \/ \E c \in Callers : ReadDay(c)
    \/ \E c \in Callers : Compute(c)
    \/ \E c \in Callers : ComputeDaysLived(c)
    \/ \E c \in Callers : ComputeMonthsLived(c)
    \/ Tick

SpecConcurrent == InitConcurrent /\ [][NextConcurrent]_vars

(***************************************************************************)
(* SpecFaultyClock: the engine with an IDateTimeProvider whose month is    *)
(* outside 1..12; calculate_age and calculate_days_lived statement by      *)
(* statement, the reported date fixed.                                     *)
(***************************************************************************)
FaultyDates ==
    { Date(2024, 0, 15), Date(2024, 13, 15), Date(2023, 13, 1),
      Date(2024, 14, 15), Date(2024, -1, 15), Date(2023, 15, 31) }

InitFaultyClock ==
    /\ config = DefaultConfig
    /\ clock \in FaultyDates
    /\ ticks = 0
    /\ uuids = 0
    /\ pc = [c \in Callers |-> "idle"]
    /\ call = [c \in Callers |-> NoCall]
    /\ result = [c \in Callers |-> None]
    /\ error = [c \in Callers |-> NoException]
    /\ effects = [c \in Callers |-> NoEffects]
    /\ probe = NoProbe
    /\ AppStart

NextFaultyClock ==
    \/ \E name \in EngineNames, age_years \in ConcurrentAges :
           CallCalculateAge(MainCaller, name, age_years)
    \/ \E age_years \in ConcurrentAges :
           CallCalculateDaysLived(MainCaller, age_years)
    \/ Validate(MainCaller)
    \/ ReadYear(MainCaller)
    \/ ReadMonth(MainCaller)
    \/ ReadDay(MainCaller)
    \/ Compute(MainCaller)
    \/ ComputeDaysLived(MainCaller)

SpecFaultyClock == InitFaultyClock /\ [][NextFaultyClock]_vars

(***************************************************************************)
(* SpecCalendar: the leap-year rule and the month-day table called         *)
(* directly, on every year of Years and every month of Months.             *)
(***************************************************************************)
InitCalendar ==
    /\ config = DefaultConfig
    /\ clock = Date(2024, 3, 15)
    /\ ticks = 0
    /\ uuids = 0
    /\ pc = [c \in Callers |-> "idle"]
    /\ call = [c \in Callers |-> NoCall]
    /\ result = [c \in Callers |-> None]
    /\ error = [c \in Callers |-> NoException]
    /\ effects = [c \in Callers |-> NoEffects]
    /\ AppStart
    /\ probe = NoProbe

engineVars == <<config, clock, ticks, uuids, pc, call, result, error, effects>>

IsLeapYearCall(year) ==
    /\ probe' = [fn |-> "is_leap_year", year |-> year,
                 out |-> Return(is_leap_year(year))]
    /\ UNCHANGED <<engineVars, appVars>>

GetDaysInYearCall(year) ==
    /\ probe' = [fn |-> "get_days_in_year", year |-> year,
                 out |-> Return(get_days_in_year(year))]
    /\ UNCHANGED <<engineVars, appVars>>

GetDaysInMonthCall(month, leap) ==
    /\ probe' = [fn |-> "get_days_in_month", month |-> month, leap |-> leap,
                 out |-> get_days_in_month(month, leap)]
    /\ UNCHANGED <<engineVars, appVars>>

GetDaysUpToMonthCall(month, leap) ==
    /\ probe' = [fn |-> "get_days_up_to_month", month |-> month, leap |-> leap,
                 out |-> get_days_up_to_month(month, leap)]
    /\ UNCHANGED <<engineVars, appVars>>

NextCalendar ==
    \/ \E year \in Years : IsLeapYearCall(year)
    \/ \E year \in Years : GetDaysInYearCall(year)
    \/ \E month \in Months, leap \in BOOLEAN : GetDaysInMonthCall(month, leap)
    \/ \E month \in Months, leap \in BOOLEAN : GetDaysUpToMonthCall(month, leap)

SpecCalendar == InitCalendar /\ [][NextCalendar]_vars

(***************************************************************************)
(* SpecValidator: the validator called directly, under every config of     *)
(* Configs, on every name of Names and every age of Ages.                  *)
(***************************************************************************)
\* the ages of the probed requests: around the bounds of every configuration
RequestAges == {-3, -2, 0, 1, 3, 5, 151}

InitValidator ==
    /\ config \in Configs
    /\ clock = Date(2024, 3, 15)
    /\ ticks = 0
    /\ uuids = 0
    /\ pc = [c \in Callers |-> "idle"]
    /\ call = [c \in Callers |-> NoCall]
    /\ result = [c \in Callers |-> None]
    /\ error = [c \in Callers |-> NoException]
    /\ effects = [c \in Callers |-> NoEffects]
    /\ AppStart
    /\ probe = NoProbe

ValidateNameCall(name) ==
    /\ probe' = [fn |-> "validate_name", name |-> name,
                 out |-> Return(validate_name(config, name))]
    /\ UNCHANGED <<engineVars, appVars>>

ValidateAgeCall(age) ==
    /\ probe' = [fn |-> "validate_age", age |-> age,
                 out |-> Return(validate_age(config, age))]
    /\ UNCHANGED <<engineVars, appVars>>

ValidateNameWithExceptionCall(name) ==
    /\ probe' = [fn |-> "validate_name_with_exception", name |-> name,
                 out |-> validate_name_with_exception(config, name)]
    /\ UNCHANGED <<engineVars, appVars>>

ValidateAgeWithExceptionCall(age) ==
    /\ probe' = [fn |-> "validate_age_with_exception", age |-> age,
                 out |-> validate_age_with_exception(config, age)]
    /\ UNCHANGED <<engineVars, appVars>>

ValidateRequestCall(name, age) ==
    /\ probe' = [fn |-> "validate_request", name |-> name, age |-> age,
                 out |-> Return(validate_request(config, name, age))]
    /\ UNCHANGED <<engineVars, appVars>>

NextValidator ==
    \/ \E name \in Names : ValidateNameCall(name)
    \/ \E age \in Ages : ValidateAgeCall(age)
    \/ \E name \in Names : ValidateNameWithExceptionCall(name)
    \/ \E age \in Ages : ValidateAgeWithExceptionCall(age)
    \/ \E name \in Names, age \in RequestAges : ValidateRequestCall(name, age)

SpecValidator == InitValidator /\ [][NextValidator]_vars

(***************************************************************************)
(* SpecApp: the controller with its view model and in-memory repository,   *)
(* a file repository, and the read-only uses of the results.  The          *)
(* controller runs on the one UI thread: nothing else runs while it waits  *)
(* in the service call, whose statements are the engine's.  clear_form,    *)
(* which touches neither repository nor results, is left to                *)
(* SpecController.                                                         *)
(***************************************************************************)
\* the default bounds but for min_age, so that an age below 0 can pass the
\* validator and meet the check of the Age value object
AppConfig == [DefaultConfig EXCEPT !.min_age = -2]
AppNames == {<<>>, <<" ", "a">>}
AppAgeTexts ==
    {<<>>, <<"a">>, <<"0">>, <<"3", "0">>, <<"-", "1">>, <<"1", "5", "1">>}
AppDate == Date(2000, 1, 1)

\* the ids uuid4 may have issued
Ids == 1..MaxResults

InitApp ==
    /\ config = AppConfig
    /\ clock = AppDate
    /\ ticks = 0
    /\ uuids = 0
    /\ pc = [c \in Callers |-> "idle"]
    /\ call = [c \in Callers |-> NoCall]
    /\ result = [c \in Callers |-> None]
    /\ error = [c \in Callers |-> NoException]
    /\ effects = [c \in Callers |-> NoEffects]
    /\ probe = NoProbe
    /\ AppStart

\* a plausible slip: the handlers called, the event published twice
Emit_twice(bus, event_type) ==
    [subscribers |-> publish(bus.subscribers, event_type).subscribers,
     events |-> bus.events \o <<Published(bus.subscribers, event_type),
                                Published(bus.subscribers, event_type)>>]

\* self._event_publisher.publish(event_type, data) by the controller: the
\* handlers called, and the call added to the log
Emit(bus, event_type) ==
    [subscribers |-> publish(bus.subscribers, event_type).subscribers,
     events |-> Append(bus.events, Published(bus.subscribers, event_type))]

\* a plausible slip: the field left out of the error
handle_validation_error_fieldless(vm, bus, message, field) ==
    [view |-> set_error(vm, message, Nothing),
     bus |-> Emit(bus, VALIDATION_FAILED)]

\* MainController._handle_validation_error(message, field)
handle_validation_error(vm, bus, message, field) ==
    [view |-> set_error(vm, message, Some(field)),
     bus |-> Emit(bus, VALIDATION_FAILED)]

\* a plausible slip: a failure of the service reported as a completion
handle_error_completing(vm, bus, message) ==
    [view |-> set_error(vm, message, Nothing),
     bus |-> Emit(bus, CALCULATION_COMPLETED)]

\* MainController._handle_error(message)
handle_error(vm, bus, message) ==
    [view |-> set_error(vm, message, Nothing),
     bus |-> Emit(bus, CALCULATION_FAILED)]

\* MainController.calculate_age(name, age) up to the service call:
\* calculation.started published, then the early returns for a blank name,
\* a blank age and a non-integer age, or the entry into
\* AgeCalculatorServiceImpl.calculate_age
ControllerCalculateAge(name, age) ==
    /\ ctl = "idle"
    /\ uuids < MaxResults
    /\ LET loading == set_loading(view)
           started == Emit([subscribers |-> subscribers, events |-> <<>>],
                           CALCULATION_STARTED)
           age_int == int_parse(age)
           early ==
               IF IsBlank(name)
               THEN handle_validation_error(loading, started,
                        Message("Please enter a name", <<>>, ""), "name")
               ELSE IF IsBlank(age)
               THEN handle_validation_error(loading, started,
                        Message("Please enter an age", <<>>, ""), "age")
               ELSE handle_validation_error(loading, started,
                        Message("Age must be a valid number", <<>>, ""), "age")
       IN  IF IsBlank(name) \/ IsBlank(age) \/ age_int.kind = "raise"
           THEN /\ view' = early.view
                /\ subscribers' = early.bus.subscribers
                /\ events' = early.bus.events
                /\ UNCHANGED <<ctl, pc, call, result, error, effects>>
           ELSE /\ view' = loading
                /\ subscribers' = started.subscribers
                /\ events' = started.events
                /\ ctl' = "in_service"
                /\ EnterCalculateAge(MainCaller, strip(name), age_int.value)
    /\ out' = Out("MainController.calculate_age", Nothing)
    /\ UNCHANGED <<config, clock, ticks, uuids, probe, heap, storage, file>>

\* MainController.calculate_age from the return of the service call: the
\* result saved, mapped, shown and calculation.completed published, or the
\* exception turned into an error
ControllerCalculateAgeReturn ==
    /\ ctl = "in_service"
    /\ pc[MainCaller] \in {"returned", "raised"}
    /\ ctl' = "idle"
    /\ LET bus == [subscribers |-> subscribers, events |-> events]
       IN  IF pc[MainCaller] = "returned"
           THEN LET r == result[MainCaller]
                    ref == Len(heap) + 1
                    result_vm == map_to_view_model(r)
                    completed == Emit(bus, CALCULATION_COMPLETED)
                IN  /\ heap' = Append(heap, r)
                    /\ storage' = Upsert(storage, [id |-> r.id, ref |-> ref])
                    /\ view' = [set_success(view, result_vm) EXCEPT
                                   !.calculation_history = Append(@, result_vm)]
                    /\ subscribers' = completed.subscribers
                    /\ events' = completed.events
           ELSE LET e == error[MainCaller]
                    failed ==
                        IF e.type = "NameValidationException"
                        THEN handle_validation_error(view, bus,
                                 message_of(e), "name")
                        ELSE IF e.type = "AgeValidationException"
                        THEN handle_validation_error(view, bus,
                                 message_of(e), "age")
                        ELSE handle_error(view, bus,
                                 Message("Unexpected error: {}",
                                         message_of(e).args,
                                         message_of(e).text))
                IN  /\ view' = failed.view
                    /\ subscribers' = failed.bus.subscribers
                    /\ events' = failed.bus.events
                    /\ UNCHANGED <<heap, storage>>
    /\ out' = Out("MainController.calculate_age", Nothing)
    /\ UNCHANGED <<config, clock, ticks, uuids, pc, call, result, error, effects, probe, file>>

\* MainController.clear_form
ClearForm ==
    /\ ctl = "idle"
    /\ view' = reset(view)
    /\ out' = Out("MainController.clear_form", Nothing)
    /\ UNCHANGED <<engineVars, probe, heap, storage, file, ctl, subscribers, events>>

\* a plausible slip: the history emptied, the repository forgotten
ClearHistoryKeepingRepository ==
    /\ ctl = "idle"
    /\ view' = [view EXCEPT !.calculation_history = <<>>]
    /\ out' = Out("MainController.clear_history", Nothing)
    /\ UNCHANGED <<engineVars, probe, heap, storage, file, ctl, subscribers, events>>

\* MainController.clear_history
ClearHistory ==
    /\ ctl = "idle"
    /\ view' = [view EXCEPT !.calculation_history = <<>>]
    /\ storage' = <<>>
    /\ out' = Out("MainController.clear_history", Nothing)
    /\ UNCHANGED <<engineVars, probe, heap, file, ctl, subscribers, events>>

\* a plausible slip: save tidies the name of the entity it is given
InMemorySaveNormalising(ref) ==
    /\ ctl = "idle"
    /\ ref \in 1..Len(heap)
    /\ heap' = [heap EXCEPT ![ref].name = get_display_name(@)]
    /\ storage' = Upsert(storage, [id |-> heap[ref].id, ref |-> ref])
    /\ out' = Out("InMemoryCalculationRepository.save", Some(heap[ref].id))
    /\ UNCHANGED <<engineVars, probe, file, view, ctl, subscribers, events>>

\* InMemoryCalculationRepository.save(result) on the controller's
\* repository, for a result the controller was given
InMemorySave(ref) ==
    /\ ctl = "idle"
    /\ ref \in 1..Len(heap)
    /\ storage' = Upsert(storage, [id |-> heap[ref].id, ref |-> ref])
    /\ out' = Out("InMemoryCalculationRepository.save", Some(heap[ref].id))
    /\ UNCHANGED <<engineVars, probe, heap, file, view, ctl, subscribers, events>>

\* InMemoryCalculationRepository.get_by_id(id): the stored reference
InMemoryGetById(id) ==
    /\ ctl = "idle"
    /\ out' = Out("InMemoryCalculationRepository.get_by_id",
                  IF IndexOfId(storage, id) = 0 THEN Nothing
                  ELSE Some(storage[IndexOfId(storage, id)].ref))
    /\ UNCHANGED <<engineVars, probe, heap, storage, file, view, ctl, subscribers, events>>

\* InMemoryCalculationRepository.get_all(): the stored references
InMemoryGetAll ==
    /\ ctl = "idle"
    /\ out' = Out("InMemoryCalculationRepository.get_all",
                  [i \in 1..Len(storage) |-> storage[i].ref])
    /\ UNCHANGED <<engineVars, probe, heap, storage, file, view, ctl, subscribers, events>>

\* InMemoryCalculationRepository.delete(id)
InMemoryDelete(id) ==
    /\ ctl = "idle"
    /\ storage' = WithoutId(storage, id)
    /\ out' = Out("InMemoryCalculationRepository.delete",
                  Some(IndexOfId(storage, id) # 0))
    /\ UNCHANGED <<engineVars, probe, heap, file, view, ctl, subscribers, events>>

\* InMemoryCalculationRepository.clear_all()
InMemoryClearAll ==
    /\ ctl = "idle"
    /\ storage' = <<>>
    /\ out' = Out("InMemoryCalculationRepository.clear_all",
                  Some(Len(storage)))
    /\ UNCHANGED <<engineVars, probe, heap, file, view, ctl, subscribers, events>>

\* a plausible slip: save adds an entry without looking for the id
FileSaveAppending(ref) ==
    /\ ctl = "idle"
    /\ ref \in 1..Len(heap)
    /\ file' = Append(file, to_dict(heap[ref]))
    /\ out' = Out("FileBasedCalculationRepository.save", Some(heap[ref].id))
    /\ UNCHANGED <<engineVars, probe, heap, storage, view, ctl, subscribers, events>>

\* FileBasedCalculationRepository.save(result)
FileSave(ref) ==
    /\ ctl = "idle"
    /\ ref \in 1..Len(heap)
    /\ file' = Upsert(file, to_dict(heap[ref]))
    /\ out' = Out("FileBasedCalculationRepository.save", Some(heap[ref].id))
    /\ UNCHANGED <<engineVars, probe, heap, storage, view, ctl, subscribers, events>>

\* FileBasedCalculationRepository.get_by_id(id): the entity rebuilt from
\* the first dict with the id, or None
FileGetById(id) ==
    /\ ctl = "idle"
    /\ out' = Out("FileBasedCalculationRepository.get_by_id",
                  IF IndexOfId(file, id) = 0 THEN Return(Nothing)
                  ELSE LET rebuilt == dict_to_result(file[IndexOfId(file, id)],
                                                     ticks)
                       IN  IF rebuilt.kind = "raise" THEN rebuilt
                           ELSE Return(Some(rebuilt.value)))
    /\ UNCHANGED <<engineVars, probe, heap, storage, file, view, ctl, subscribers, events>>

\* FileBasedCalculationRepository.get_all(): every dict rebuilt
FileGetAll ==
    /\ ctl = "idle"
    /\ out' = Out("FileBasedCalculationRepository.get_all",
                  IF \E i \in 1..Len(file) :
                        dict_to_result(file[i], ticks).kind = "raise"
                  THEN Raise(ValueObjectError("Age cannot be negative"))
                  ELSE Return([i \in 1..Len(file) |->
                                  dict_to_result(file[i], ticks).value]))
    /\ UNCHANGED <<engineVars, probe, heap, storage, file, view, ctl, subscribers, events>>

\* FileBasedCalculationRepository.delete(id)
FileDelete(id) ==
    /\ ctl = "idle"
    /\ file' = WithoutId(file, id)
    /\ out' = Out("FileBasedCalculationRepository.delete",
                  Some(IndexOfId(file, id) # 0))
    /\ UNCHANGED <<engineVars, probe, heap, storage, view, ctl, subscribers, events>>

\* FileBasedCalculationRepository.clear_all()
FileClearAll ==
    /\ ctl = "idle"
    /\ file' = <<>>
    /\ out' = Out("FileBasedCalculationRepository.clear_all", Some(Len(file)))
    /\ UNCHANGED <<engineVars, probe, heap, storage, view, ctl, subscribers, events>>

\* AgeCalculationResult.to_dict()
ToDictCall(ref) ==
    /\ ctl = "idle"
    /\ ref \in 1..Len(heap)
    /\ out' = Out("AgeCalculationResult.to_dict", to_dict(heap[ref]))
    /\ UNCHANGED <<engineVars, probe, heap, storage, file, view, ctl, subscribers, events>>

\* ConsoleResultFormatter.format_for_display(result)
FormatForDisplayCall(ref) ==
    /\ ctl = "idle"
    /\ ref \in 1..Len(heap)
    /\ out' = Out("ConsoleResultFormatter.format_for_display",
                  format_for_display(heap[ref]))
    /\ UNCHANGED <<engineVars, probe, heap, storage, file, view, ctl, subscribers, events>>

NextApp ==
    \/ \E name \in AppNames, age \in AppAgeTexts :
           ControllerCalculateAge(name, age)
    \/ Validate(MainCaller)
    \/ ReadYear(MainCaller)
    \/ ReadMonth(MainCaller)
    \/ ReadDay(MainCaller)
    \/ Compute(MainCaller)
    \/ ControllerCalculateAgeReturn
    \/ ClearHistory
    \/ \E ref \in Ids : InMemorySave(ref)
    \/ \E id \in Ids : InMemoryGetById(id)
    \/ InMemoryGetAll
    \/ \E id \in Ids : InMemoryDelete(id)
    \/ InMemoryClearAll
    \/ \E ref \in Ids : FileSave(ref)
    \/ \E id \in Ids : FileGetById(id)
    \/ FileGetAll
    \/ \E id \in Ids : FileDelete(id)
    \/ FileClearAll
    \/ \E ref \in Ids : ToDictCall(ref)
    \/ \E ref \in Ids : FormatForDisplayCall(ref)

SpecApp == InitApp /\ [][NextApp]_vars

(***************************************************************************)
(* SpecController: the controller alone with its view model, repository    *)
(* and publisher; nothing else holds a reference to the repository.        *)
(***************************************************************************)
\* the names entered; the configuration is that of the application or one
\* under which a name of one character is too short for the service
ControllerNames == {<<>>, <<" ">>, <<" ", "a">>, <<"a", "d">>}

InitController ==
    /\ config \in {AppConfig, [AppConfig EXCEPT !.min_name_length = 2]}
    /\ clock = AppDate
    /\ ticks = 0
    /\ uuids = 0
    /\ pc = [c \in Callers |-> "idle"]
    /\ call = [c \in Callers |-> NoCall]
    /\ result = [c \in Callers |-> None]
    /\ error = [c \in Callers |-> NoException]
    /\ effects = [c \in Callers |-> NoEffects]
    /\ probe = NoProbe
    /\ AppStart

NextController ==
    \* the age texts of the application, a blank one and a padded number
    \/ \E name \in ControllerNames,
          age \in AppAgeTexts \cup {<<" ">>, <<" ", "3">>} :
           ControllerCalculateAge(name, age)
    \/ Validate(MainCaller)
    \/ ReadYear(MainCaller)
    \/ ReadMonth(MainCaller)
    \/ ReadDay(MainCaller)
    \/ Compute(MainCaller)
    \/ ControllerCalculateAgeReturn
    \/ ClearForm
    \/ ClearHistory

SpecController == InitController /\ [][NextController]_vars

(***************************************************************************)
(* SpecPublisher: a SimpleEventPublisher of its own, with subscribe,       *)
(* unsubscribe and publish called directly; handlers are subscribed to     *)
(* two of the event types, and ui.closed is published with no handler.     *)
(***************************************************************************)
RECURSIVE Subscriptions(_, _)
Subscriptions(subs, types) ==
    IF types = {} THEN 0
    ELSE LET t == CHOOSE x \in types : TRUE
         IN  Len(subs[t]) + Subscriptions(subs, types \ {t})

InitPublisher ==
    /\ config = DefaultConfig
    /\ clock = AppDate
    /\ ticks = 0
    /\ uuids = 0
    /\ pc = [c \in Callers |-> "idle"]
    /\ call = [c \in Callers |-> NoCall]
    /\ result = [c \in Callers |-> None]
    /\ error = [c \in Callers |-> NoException]
    /\ effects = [c \in Callers |-> NoEffects]
    /\ probe = NoProbe
    /\ heap = <<>>
    /\ storage = <<>>
    /\ file = <<>>
    /\ view = MainViewModel
    /\ ctl = "idle"
    /\ out = NoOut
    /\ subscribers = NoSubscribers
    /\ events = <<>>

\* SimpleEventPublisher.subscribe(event_type, handler)
SubscribeCall(event_type, handler) ==
    /\ Subscriptions(subscribers, EventTypes) < MaxSubscriptions
    /\ subscribers' = subscribe(subscribers, event_type, handler)
    /\ out' = Out("SimpleEventPublisher.subscribe", Nothing)
    /\ UNCHANGED <<engineVars, probe, heap, storage, file, view, ctl, events>>

\* SimpleEventPublisher.unsubscribe(event_type, handler)
UnsubscribeCall(event_type, handler) ==
    /\ subscribers' = unsubscribe(subscribers, event_type, handler).subscribers
    /\ out' = Out("SimpleEventPublisher.unsubscribe",
                  Some(unsubscribe(subscribers, event_type, handler).value))
    /\ UNCHANGED <<engineVars, probe, heap, storage, file, view, ctl, events>>

\* SimpleEventPublisher.publish(event_type, data)
PublishCall(event_type) ==
    /\ subscribers' = publish(subscribers, event_type).subscribers
    /\ events' = <<Published(subscribers, event_type)>>
    /\ out' = Out("SimpleEventPublisher.publish", Nothing)
    /\ UNCHANGED <<engineVars, probe, heap, storage, file, view, ctl>>

NextPublisher ==
    \/ \E t \in {CALCULATION_COMPLETED, CALCULATION_FAILED}, h \in Handlers :
           SubscribeCall(t, h)
    \/ \E t \in {CALCULATION_COMPLETED, CALCULATION_FAILED}, h \in Handlers :
           UnsubscribeCall(t, h)
    \/ \E t \in {CALCULATION_COMPLETED, CALCULATION_FAILED, "ui.closed"} :
           PublishCall(t)

SpecPublisher == InitPublisher /\ [][NextPublisher]_vars

(***************************************************************************)
(* Properties.                                                             *)
(***************************************************************************)
Abs(n) == IF n < 0 THEN -n ELSE n

\* d divides n: n is an integer multiple of d
Divides(d, n) == \E k \in -Abs(n)..Abs(n) : n = d * k

\* the calculate_age call has run its arithmetic
Computed(c) ==
    /\ call[c].op = "calculate_age"
    /\ pc[c] \in {"returned", "raised"}
    /\ effects[c].calendar_calls > 0

\* the days of the full years birth_year..current_year-1, counted by kind
\* of year instead of accumulated year by year
FullYearDays(birth_year, current_year) ==
    LET years == birth_year..(current_year - 1)
    IN  365 * Cardinality({y \in years : get_days_in_year(y) = 365})
        + 366 * Cardinality({y \in years : get_days_in_year(y) = 366})

\* C1: for every accepted age_years and every current date with month in
\* 1..12, the total days the engine computes (and reports as age_days) are
\* the days of the years birth_year..current_year-1, plus
\* get_days_up_to_month(current_month, leap of current_year), plus
\* current_day; for age_years = 0 there are no full-year days.
C1_TotalDaysFormula ==
    \A c \in Callers :
        (Computed(c) /\ call[c].current_month \in 1..12) =>
            LET birth_year == call[c].current_year - call[c].age_years
                before == get_days_up_to_month(call[c].current_month,
                                               is_leap_year(call[c].current_year))
            IN  /\ \A y \in birth_year..(call[c].current_year - 1) :
                       get_days_in_year(y) \in {365, 366}
                /\ before.kind = "return"
                /\ call[c].total_days =
                       FullYearDays(birth_year, call[c].current_year)
                       + before.value + call[c].current_day
                /\ (call[c].age_years = 0 =>
                       call[c].total_days = before.value + call[c].current_day)
                /\ (pc[c] = "returned" => result[c].age_days = call[c].total_days)

\* a result for a birth year before year 1 that spans leap and century years
C1_Witness ==
    \E c \in Callers :
        /\ pc[c] = "returned"
        /\ call[c].age_years = 150
        /\ call[c].current_year - call[c].age_years < 0
        /\ call[c].current_month > 1
        /\ result[c].age_days = call[c].total_days

\* C2: in every returned result with total days D, age Y and current month
\* M: months = Y*12 + M, weeks = floor(D/7), hours = D*24 and
\* minutes = hours*60 = D*1440.
C2_DerivedUnits ==
    \A c \in Callers :
        (pc[c] = "returned" /\ call[c].op = "calculate_age") =>
            LET D == result[c].age_days
                Y == result[c].age_years
                M == call[c].current_month
            IN  /\ result[c].age_months = Y * 12 + M
                /\ 7 * result[c].age_weeks <= D
                /\ D < 7 * result[c].age_weeks + 7
                /\ result[c].age_hours = D * 24
                /\ result[c].age_minutes = result[c].age_hours * 60
                /\ result[c].age_minutes = D * 1440

\* a result whose day total is not a whole number of weeks
C2_Witness ==
    \E c \in Callers :
        /\ pc[c] = "returned"
        /\ result[c].age_years > 0
        /\ result[c].age_days % 7 # 0

\* C3: with the date source fixed at 2024-03-15, the default bounds, name
\* "Ada" and age 30, calculate_age returns birth_year 1994, 11032 days,
\* 363 months, 1576 weeks, 264768 hours and 15886080 minutes.
C3_AdaScenario ==
    \A c \in Callers :
        (/\ config = DefaultConfig
         /\ ticks = 0
         /\ clock = Date(2024, 3, 15)
         /\ call[c].name = Ada
         /\ call[c].age_years = 30
         /\ pc[c] \in {"returned", "raised"}) =>
            /\ pc[c] = "returned"
            /\ result[c].birth_year = 1994
            /\ result[c].age_days = 11032
            /\ result[c].age_months = 363
            /\ result[c].age_weeks = 1576
            /\ result[c].age_hours = 264768
            /\ result[c].age_minutes = 15886080

C3_Witness ==
    \E c \in Callers :
        /\ config = DefaultConfig
        /\ ticks = 0
        /\ clock = Date(2024, 3, 15)
        /\ call[c].name = Ada
        /\ call[c].age_years = 30
        /\ pc[c] = "returned"
        /\ result[c].current_year = 2024

\* C4: for every integer year, also year <= 0, is_leap_year is true exactly
\* when the year is divisible by 4 and (not by 100 or by 400);
\* get_days_in_year is 366 exactly for those years and 365 otherwise, and
\* neither raises.
C4_LeapYearRule ==
    /\ probe.fn = "is_leap_year" =>
          /\ probe.out.kind = "return"
          /\ probe.out.value <=>
                (Divides(4, probe.year)
                 /\ (~Divides(100, probe.year) \/ Divides(400, probe.year)))
    /\ probe.fn = "get_days_in_year" =>
          /\ probe.out.kind = "return"
          /\ probe.out.value \in {365, 366}
          /\ probe.out.value = 366 <=>
                (Divides(4, probe.year)
                 /\ (~Divides(100, probe.year) \/ Divides(400, probe.year)))

\* a leap year before year 1
C4_Witness ==
    /\ probe.fn = "get_days_in_year"
    /\ probe.year = -400
    /\ probe.out.value = 366

\* the days of the months of S, summed month by month from the highest
RECURSIVE MonthDaysSum(_, _)
MonthDaysSum(S, leap) ==
    IF S = {} THEN 0
    ELSE LET k == CHOOSE x \in S : \A z \in S : z <= x
         IN  get_days_in_month(k, leap).value + MonthDaysSum(S \ {k}, leap)

\* C5: for every month m in 1..12 and both leap flags,
\* get_days_up_to_month(m, leap) is the sum of get_days_in_month(k, leap)
\* over k in 1..m-1: 0 for m = 1, 60 for (3, leap), 59 for (3, non-leap),
\* and with December added 366 when leap and 365 otherwise.
C5_DaysUpToMonth ==
    (probe.fn = "get_days_up_to_month" /\ probe.month \in 1..12) =>
        /\ probe.out.kind = "return"
        /\ probe.out.value = MonthDaysSum(1..(probe.month - 1), probe.leap)
        /\ (probe.month = 1 => probe.out.value = 0)
        /\ (probe.month = 3 =>
               probe.out.value = IF probe.leap THEN 60 ELSE 59)
        /\ (probe.month = 12 =>
               probe.out.value + get_days_in_month(12, probe.leap).value
                   = IF probe.leap THEN 366 ELSE 365)

C5_Witness ==
    /\ probe.fn = "get_days_up_to_month"
    /\ probe.month = 12
    /\ probe.leap
    /\ probe.out.value = 335

\* C6: get_days_in_month(m, leap) is 31, 28 (29 when leap), 31, 30, 31, 30,
\* 31, 31, 30, 31, 30, 31 for m = 1..12; the leap flag changes February
\* only.
C6_MonthTable ==
    (probe.fn = "get_days_in_month" /\ probe.month \in 1..12) =>
        /\ probe.out.kind = "return"
        /\ probe.out.value =
              <<31, 28, 31, 30, 31, 30, 31, 31, 30, 31, 30, 31>>[probe.month]
              + (IF probe.leap /\ probe.month = 2 THEN 1 ELSE 0)
        /\ (get_days_in_month(probe.month, TRUE)
               # get_days_in_month(probe.month, FALSE)) <=> probe.month = 2

C6_Witness ==
    /\ probe.fn = "get_days_in_month"
    /\ probe.month = 2
    /\ probe.leap
    /\ probe.out.value = 29

\* C7: for every month outside 1..12 and either leap flag, get_days_in_month
\* and get_days_up_to_month raise the invalid-month error and return no
\* value; for every month in 1..12 neither raises.
C7_InvalidMonth ==
    probe.fn \in {"get_days_in_month", "get_days_up_to_month"} =>
        /\ probe.month \notin 1..12 =>
              /\ probe.out.kind = "raise"
              /\ probe.out.exc = InvalidMonthError(probe.month)
        /\ probe.month \in 1..12 => probe.out.kind = "return"

C7_Witness ==
    /\ probe.fn = "get_days_up_to_month"
    /\ probe.month = 13
    /\ probe.out.kind = "raise"

ValidationErrors == {"NameValidationException", "AgeValidationException"}

\* the running call's name or age is one the validator rejects
Rejected(c) ==
    \/ ~validate_age(config, call[c].age_years)
    \/ IsBlank(call[c].name)
    \/ Len(call[c].name) < config.min_name_length
    \/ Len(call[c].name) > config.max_name_length

\* C8: a calculate_age call whose name or age validation rejects raises the
\* validation error before the date source is queried and before any
\* leap-year or month-day calculation runs, and no AgeCalculationResult is
\* created or returned.
C8_ValidationBeforeArithmetic ==
    \A c \in Callers :
        /\ (Rejected(c) /\ pc[c] \notin {"idle", "validate"}) =>
              /\ pc[c] = "raised"
              /\ error[c].type \in ValidationErrors
        /\ (pc[c] = "raised" /\ error[c].type \in ValidationErrors) =>
              /\ effects[c].date_reads = 0
              /\ effects[c].calendar_calls = 0
              /\ effects[c].results_created = 0
              /\ call[c].current_year = 0 /\ call[c].current_month = 0
              /\ call[c].current_day = 0
              /\ result[c] = None

\* a valid name with a rejected age, while the clock has already advanced
C8_Witness ==
    \E c \in Callers :
        /\ pc[c] = "raised"
        /\ error[c].type = "AgeValidationException"
        /\ call[c].name = Ada
        /\ call[c].age_years = 151
        /\ ticks > 0
        /\ effects[c].date_reads = 0

\* C9: under every ValidationConfig and for every age, validate_age is true
\* and validate_age_with_exception does not raise exactly when
\* min_age <= age <= max_age; otherwise the AgeValidationException has
\* field "age" and carries the age and the configured bounds.  With the
\* default bounds, -1 and 151 are rejected, 0 and 150 accepted.
C9_AgeBounds ==
    /\ probe.fn = "validate_age" =>
          /\ probe.out.value <=>
                probe.age \in config.min_age..config.max_age
          /\ (config = DefaultConfig /\ probe.age \in {-1, 151}) =>
                ~probe.out.value
          /\ (config = DefaultConfig /\ probe.age \in {0, 150}) =>
                probe.out.value
    /\ probe.fn = "validate_age_with_exception" =>
          /\ probe.out.kind = "return" <=>
                probe.age \in config.min_age..config.max_age
          /\ probe.out.kind = "raise" =>
                /\ probe.out.exc.type = "AgeValidationException"
                /\ probe.out.exc.field_name = "age"
                /\ probe.out.exc.invalid_value = probe.age
                /\ probe.out.exc.min_age = config.min_age
                /\ probe.out.exc.max_age = config.max_age
          /\ (config = DefaultConfig /\ probe.age \in {-1, 151}) =>
                probe.out.kind = "raise"
          /\ (config = DefaultConfig /\ probe.age \in {0, 150}) =>
                probe.out.kind = "return"

\* the upper bound itself, accepted
C9_Witness ==
    /\ probe.fn = "validate_age_with_exception"
    /\ config = DefaultConfig
    /\ probe.age = 150
    /\ probe.out.kind = "return"

\* every character of the name is whitespace (the empty name included)
AllWhitespace(name) == \A i \in 1..Len(name) : name[i] \in Whitespace

\* the outcome of validate_name_with_exception when the bounds are compared
\* with the length `len`
NameOutcome(name, len) ==
    IF AllWhitespace(name) THEN "empty_value"
    ELSE IF len < config.min_name_length THEN "too_short"
    ELSE IF len > config.max_name_length THEN "too_long"
    ELSE "accepted"

\* the outcome the probed call had
ProbedNameOutcome ==
    IF probe.out.kind = "return" THEN "accepted"
    ELSE IF probe.out.exc.type = "NameValidationException"
    THEN probe.out.exc.reason
    ELSE "other"

\* C10 as stated: validate_name_with_exception raises empty_value for an
\* empty or whitespace-only name, otherwise too_short, otherwise too_long,
\* otherwise nothing, the length compared being that of the trimmed name.
C10_TrimmedLength ==
    probe.fn = "validate_name_with_exception" =>
        ProbedNameOutcome = NameOutcome(probe.name, Len(strip(probe.name)))

\* C10 amended: the same classification in the same order, the length
\* compared being that of the name as passed, surrounding whitespace
\* included.
C10_RawLength ==
    probe.fn = "validate_name_with_exception" =>
        /\ ProbedNameOutcome = NameOutcome(probe.name, Len(probe.name))
        /\ probe.out.kind = "raise" =>
              /\ probe.out.exc.field_name = "name"
              /\ probe.out.exc.invalid_value = probe.name

\* a name whose trimmed length is within the bounds and whose raw length
\* is not
C10_Witness ==
    /\ probe.fn = "validate_name_with_exception"
    /\ probe.name = <<" ", "a", " ">>
    /\ config.max_name_length = 2
    /\ probe.out.kind = "raise"
    /\ probe.out.exc.reason = "too_long"

\* the name has a character outside allowed_name_characters
HasDisallowedCharacter(name) ==
    \E i \in 1..Len(name) : name[i] \notin config.allowed_name_characters

\* C11: with strict_name_validation enabled, every name with a character
\* outside allowed_name_characters is rejected by validation, and
\* calculate_age called with such a name (and an age within the bounds)
\* ends in a name validation error instead of a result.
C11_StrictModeRejects ==
    \A c \in Callers :
        (/\ config.strict_name_validation
         /\ HasDisallowedCharacter(call[c].name)
         /\ validate_age(config, call[c].age_years)
         /\ pc[c] \in {"returned", "raised"}) =>
            /\ ~validate_name(config, call[c].name)
            /\ pc[c] = "raised"
            /\ error[c].type = "NameValidationException"
            /\ result[c] = None

\* the name breaks a rule of the configuration
NameInvalid(name) ==
    \/ AllWhitespace(name)
    \/ Len(name) < config.min_name_length
    \/ Len(name) > config.max_name_length
    \/ config.strict_name_validation /\ HasDisallowedCharacter(name)

\* how many messages of the list are about the field
MessagesAbout(errors, field) ==
    Cardinality({i \in 1..Len(errors) : errors[i].field = field})

\* C12: validate_request never raises and does not stop at the first
\* error: the list it returns has a name message exactly when the name is
\* invalid and an age message exactly when the age is invalid, so two
\* messages when both are invalid and none when the request is valid.
C12_RequestCollectsAllErrors ==
    probe.fn = "validate_request" =>
        LET errors == probe.out.value
            bad_name == NameInvalid(probe.name)
            bad_age == probe.age \notin config.min_age..config.max_age
        IN  /\ probe.out.kind = "return"
            /\ MessagesAbout(errors, "name") = (IF bad_name THEN 1 ELSE 0)
            /\ MessagesAbout(errors, "age") = (IF bad_age THEN 1 ELSE 0)
            /\ Len(errors) = MessagesAbout(errors, "name")
                              + MessagesAbout(errors, "age")
            /\ (bad_name /\ bad_age) => Len(errors) = 2
            /\ (~bad_name /\ ~bad_age) => errors = <<>>

\* a request with both fields invalid, the name only by strict mode
C12_Witness ==
    /\ probe.fn = "validate_request"
    /\ config.strict_name_validation
    /\ probe.name = <<"1">>
    /\ probe.age = 151
    /\ Len(probe.out.value) = 2

\* the running call's name and age both pass the raising validators
PassesValidation(c) ==
    /\ validate_name_with_exception(config, call[c].name).kind = "return"
    /\ validate_age_with_exception(config, call[c].age_years).kind = "return"

\* C14: under every ValidationConfig, also one with a negative min_age, a
\* calculate_age call whose name and age pass the raising validators, at a
\* date with month in 1..12, returns an AgeCalculationResult and raises
\* nothing.
C14_ValidatedCallReturns ==
    \A c \in Callers :
        (/\ pc[c] \in {"returned", "raised"}
         /\ PassesValidation(c)
         /\ call[c].current_month \in 1..12) =>
            /\ pc[c] = "returned"
            /\ error[c] = NoException
            /\ result[c] # None

\* C15: in every result calculate_age returns, the years, months, days,
\* weeks, hours and minutes are non-negative integers.
C15_NonNegativeUnits ==
    \A c \in Callers :
        (pc[c] = "returned" /\ call[c].op = "calculate_age") =>
            /\ result[c].age_years \in Nat
            /\ result[c].age_months \in Nat
            /\ result[c].age_days \in Nat
            /\ result[c].age_weeks \in Nat
            /\ result[c].age_hours \in Nat
            /\ result[c].age_minutes \in Nat

\* a result under a configuration that accepts negative ages
C15_Witness ==
    \E c \in Callers :
        /\ pc[c] = "returned"
        /\ config.min_age < 0
        /\ result[c].age_years = 0
        /\ result[c].age_weeks >= 0

\* caller c's call of the method `op` has returned
ReturnedFrom(c, op) == pc[c] = "returned" /\ call[c].op = op

\* the date the date source reported to the call of caller c
SeenDate(c) ==
    <<effects[c].seen_year, effects[c].seen_month, effects[c].seen_day>>

\* C16 as stated: at one reported date, for every pair of integer ages
\* a < b, calculate_days_lived(a) < calculate_days_lived(b).
C16_StrictlyIncreasingAllAges ==
    \A c, d \in Callers :
        (/\ ReturnedFrom(c, "calculate_days_lived")
         /\ ReturnedFrom(d, "calculate_days_lived")
         /\ SeenDate(c) = SeenDate(d)
         /\ call[c].age_years < call[d].age_years) =>
            result[c].value < result[d].value

\* C16 as amended: at one reported date, for every pair of integer ages
\* a < b with b >= 1, calculate_days_lived(a) < calculate_days_lived(b), by
\* at least 365 days per year of age above max(a, 0); for a < b <= 0 the
\* two values are equal.
C16_StrictlyIncreasingFromZero ==
    \A c, d \in Callers :
        (/\ ReturnedFrom(c, "calculate_days_lived")
         /\ ReturnedFrom(d, "calculate_days_lived")
         /\ SeenDate(c) = SeenDate(d)
         /\ call[c].age_years < call[d].age_years) =>
            LET a == call[c].age_years
                b == call[d].age_years
                from == IF a < 0 THEN 0 ELSE a
            IN  /\ b >= 1 => result[c].value + 365 * (b - from) <= result[d].value
                /\ b >= 1 => result[c].value < result[d].value
                /\ b <= 0 => result[c].value = result[d].value

\* the ages 0 and 1 compared at one reported date
C16_Witness ==
    \E c, d \in Callers :
        /\ ReturnedFrom(c, "calculate_days_lived")
        /\ ReturnedFrom(d, "calculate_days_lived")
        /\ SeenDate(c) = SeenDate(d)
        /\ call[c].age_years = 0
        /\ call[d].age_years = 1
        /\ result[c].value < result[d].value

\* the date-dependent fields of a result
Units(r) ==
    <<r.age_years, r.age_months, r.age_days, r.age_weeks, r.age_hours,
      r.age_minutes, r.birth_year, r.current_year>>

\* C17: two calculate_age calls with the same age_years to which the date
\* source reported the same (year, month, day) return equal years, months,
\* days, weeks, hours, minutes, birth_year and current_year, whatever the
\* names and however many results were created before either.
C17_Determinism ==
    \A c, d \in Callers :
        (/\ ReturnedFrom(c, "calculate_age")
         /\ ReturnedFrom(d, "calculate_age")
         /\ call[c].age_years = call[d].age_years
         /\ SeenDate(c) = SeenDate(d)) =>
            Units(result[c]) = Units(result[d])

\* two results for the same age and date under different names, one
\* created after the other
C17_Witness ==
    \E c, d \in Callers :
        /\ ReturnedFrom(c, "calculate_age")
        /\ ReturnedFrom(d, "calculate_age")
        /\ call[c].age_years = call[d].age_years
        /\ SeenDate(c) = SeenDate(d)
        /\ call[c].name # call[d].name
        /\ result[c].id < result[d].id
        /\ Units(result[c]) = Units(result[d])

\* what caller c's call returns when it runs alone on the instances, with
\* the date source reporting to it what it reported in this run
AloneOutcome(c) ==
    LET days == calculate_total_days(call[c].age_years, effects[c].seen_year,
                                     effects[c].seen_month, effects[c].seen_day)
    IN  IF call[c].op = "calculate_months_lived"
        THEN IntResult(months_lived(call[c].age_years, effects[c].seen_month))
        ELSE IF call[c].op = "calculate_days_lived"
        THEN IntResult(days.value)
        ELSE derive_result(result[c].id, call[c].name, call[c].age_years,
                           days.value, effects[c].seen_year,
                           effects[c].seen_month,
                           result[c].calculation_timestamp).value

\* the locals of caller c's running call hold what the date source
\* reported to that call
LocalsAreOwn(c) ==
    /\ pc[c] \in {"read_month", "read_day", "compute", "returned"} =>
          (call[c].op # "calculate_months_lived" =>
              call[c].current_year = effects[c].seen_year)
    /\ pc[c] \in {"read_day", "compute", "returned"} =>
          call[c].current_month = effects[c].seen_month
    /\ pc[c] \in {"compute", "returned"} =>
          (call[c].op # "calculate_months_lived" =>
              call[c].current_day = effects[c].seen_day)

\* what the validator decides for caller c's arguments on its own
AloneValidation(c) ==
    LET n == validate_name_with_exception(config, call[c].name)
        a == validate_age_with_exception(config, call[c].age_years)
    IN  IF n.kind = "raise" THEN n.exc
        ELSE IF a.kind = "raise" THEN a.exc
        ELSE NoException

\* C19: no step of calculate_age, calculate_days_lived or
\* calculate_months_lived changes the ValidationConfig (the only state the
\* engine, the calculators and the validator hold), and with the steps of
\* two callers interleaved in any order on the shared instances every
\* caller's locals stay its own and its call returns or raises what it
\* does running alone with the same arguments and reported date.
C19_NoSharedWrites ==
    /\ [][config' = config]_vars
    /\ [](\A c \in Callers :
            /\ LocalsAreOwn(c)
            /\ pc[c] = "returned" => result[c] = AloneOutcome(c)
            /\ pc[c] = "raised" => error[c] = AloneValidation(c))

\* one caller's result is complete while the other is between its reads,
\* for another age and after the clock has advanced
C19_Witness ==
    \E c, d \in Callers :
        /\ ReturnedFrom(c, "calculate_age")
        /\ pc[d] = "read_day"
        /\ call[d].age_years # call[c].age_years
        /\ effects[d].seen_month # effects[c].seen_month
        /\ result[c] = AloneOutcome(c)

\* C20: at one reported date, calculate_days_lived(age) equals the
\* age_days of the result of calculate_age(name, age) and
\* calculate_months_lived(age) equals its age_months.
C20_ConvenienceEntryPoints ==
    \A c, d \in Callers :
        (/\ ReturnedFrom(c, "calculate_age")
         /\ call[d].age_years = call[c].age_years) =>
            /\ (/\ ReturnedFrom(d, "calculate_days_lived")
                /\ SeenDate(d) = SeenDate(c)) =>
                   result[d].value = result[c].age_days
            /\ (/\ ReturnedFrom(d, "calculate_months_lived")
                /\ effects[d].seen_month = effects[c].seen_month) =>
                   result[d].value = result[c].age_months

\* a result for age 1 next to calculate_months_lived(1) for the same
\* month
C20_Witness ==
    \E c, d \in Callers :
        /\ ReturnedFrom(c, "calculate_age")
        /\ ReturnedFrom(d, "calculate_months_lived")
        /\ call[c].age_years = 1
        /\ call[d].age_years = 1
        /\ effects[d].seen_month = effects[c].seen_month
        /\ result[d].value = result[c].age_months

\* a result for age 1 next to calculate_days_lived(1) for the same date
C20_WitnessDays ==
    \E c, d \in Callers :
        /\ ReturnedFrom(c, "calculate_age")
        /\ ReturnedFrom(d, "calculate_days_lived")
        /\ call[c].age_years = 1
        /\ call[d].age_years = 1
        /\ SeenDate(d) = SeenDate(c)
        /\ result[d].value = result[c].age_days

\* the entity FileBasedCalculationRepository.get_by_id has just returned
Loaded ==
    /\ out.fn = "FileBasedCalculationRepository.get_by_id"
    /\ out.value.kind = "return"
    /\ out.value.value # Nothing

\* the results of calculate_age that carry the id
Originals(id) == {ref \in 1..Len(heap) : heap[ref].id = id}

\* C13: for every result of calculate_age, also one for age_years = 0,
\* what FileBasedCalculationRepository.get_by_id rebuilds after save (to_dict
\* and then _dict_to_result) has age_years, age_months, age_days, age_weeks,
\* age_hours, age_minutes, birth_year and current_year equal to the
\* original's.
C13_RoundTrip ==
    Loaded =>
        LET rebuilt == out.value.value[1]
        IN  \A ref \in Originals(rebuilt.id) :
                /\ rebuilt.age_years = Some(heap[ref].age_years)
                /\ rebuilt.age_months = Some(heap[ref].age_months)
                /\ rebuilt.age_days = Some(heap[ref].age_days)
                /\ rebuilt.age_weeks = Some(heap[ref].age_weeks)
                /\ rebuilt.age_hours = Some(heap[ref].age_hours)
                /\ rebuilt.age_minutes = Some(heap[ref].age_minutes)
                /\ rebuilt.birth_year = Some(heap[ref].birth_year)
                /\ rebuilt.current_year = Some(heap[ref].current_year)

\* the round trip of a result whose numbers are all above 0
C13_RoundTripOfPositive ==
    /\ Loaded
    /\ \E ref \in Originals(out.value.value[1].id) :
           /\ heap[ref].age_years = 1
           /\ out.value.value[1].age_years = Some(30)
           /\ out.value.value[1].age_days = Some(heap[ref].age_days)

\* C18: no step changes a field of a result calculate_age has returned: the
\* id, name, units, birth_year, current_year and timestamp of every result
\* the controller was given stay what they were, through saves, reads,
\* deletes and clears of both repositories, to_dict, formatting, mapping to
\* the view model, later calculations, clear_form and clear_history.
C18_ResultsNeverChange ==
    [][\A ref \in 1..Len(heap) :
          /\ ref <= Len(heap')
          /\ heap'[ref] = heap[ref]]_vars

\* the first result after a later calculation: dropped from the history
\* and the in-memory repository, still in the file, its name not tidied
C18_Witness ==
    /\ Len(heap) = 2
    /\ heap[1].id = 1
    /\ heap[1].name = <<"a">>
    /\ heap[1].calculation_timestamp = 0
    /\ IndexOfId(storage, 1) = 0
    /\ IndexOfId(file, 1) # 0
    /\ view.calculation_history = <<>>
    /\ out.fn = "ConsoleResultFormatter.format_for_display"

\* caller c's call has read the date and left _calculate_total_days
DaysDecided(c) ==
    /\ call[c].op \in {"calculate_age", "calculate_days_lived"}
    /\ pc[c] \in {"returned", "raised"}
    /\ effects[c].date_reads = 3

\* C21: when the date source reports a month outside 1..12, calculate_age
\* and calculate_days_lived end in the invalid-month error of the
\* month-day table for that month and return neither a day total nor a
\* result.
C21_InvalidMonthFails ==
    \A c \in Callers :
        (DaysDecided(c) /\ effects[c].seen_month \notin 1..12) =>
            /\ pc[c] = "raised"
            /\ error[c] = InvalidMonthError(effects[c].seen_month)
            /\ result[c] = None

\* the months for which the engine does raise: those past 13, where the
\* loop over range(1, month) reaches get_days_in_month(13)
C21_RaisesPastThirteen ==
    \E c \in Callers :
        /\ DaysDecided(c)
        /\ effects[c].seen_month > 13
        /\ pc[c] = "raised"
        /\ error[c] = InvalidMonthError(13)

\* C22: under every configuration, strict mode on or off, validate_name
\* returns false exactly when validate_name_with_exception raises, and
\* validate_age returns false exactly when validate_age_with_exception
\* raises; so validate_request returns no error exactly when the two
\* raising validators, the validation of calculate_age, both pass.
C22_ValidationPathsAgree ==
    /\ probe.fn = "validate_name" =>
           (probe.out.value = FALSE <=>
               validate_name_with_exception(config, probe.name).kind = "raise")
    /\ probe.fn = "validate_age" =>
           (probe.out.value = FALSE <=>
               validate_age_with_exception(config, probe.age).kind = "raise")
    /\ probe.fn = "validate_request" =>
           (probe.out.value = <<>> <=>
               /\ validate_name_with_exception(config, probe.name).kind
                      = "return"
               /\ validate_age_with_exception(config, probe.age).kind
                      = "return")

\* C25: within one calculate_age call the year, the month and the day used
\* are those of one single instant, even if the clock advances between the
\* reads: when the day, the last of the three, is read, the year and the
\* month already read are those the clock shows at that moment; and the day
\* used is a day of the month and year used.
C25_OneInstant ==
    /\ [][\A c \in Callers :
            ( /\ call[c].op = "calculate_age"
              /\ pc[c] = "read_day"
              /\ pc'[c] = "compute" ) =>
                /\ call'[c].current_year = clock.year
                /\ call'[c].current_month = clock.month
                /\ call'[c].current_day = clock.day]_vars
    /\ [](\A c \in Callers :
            ( /\ call[c].op = "calculate_age"
              /\ pc[c] = "compute"
              /\ call[c].current_month \in 1..12 ) =>
                call[c].current_day \in
                    1..get_days_in_month(call[c].current_month,
                                         is_leap_year(call[c].current_year)).value)

\* the elements of sub are elements of seq, in the order of seq
RECURSIVE IsSubsequence(_, _)
IsSubsequence(sub, seq) ==
    IF sub = <<>> THEN TRUE
    ELSE IF seq = <<>> THEN FALSE
    ELSE IF Head(sub) = Head(seq) THEN IsSubsequence(Tail(sub), Tail(seq))
    ELSE IsSubsequence(sub, Tail(seq))

\* the state right after a direct publish call
JustPublished == out.fn = "SimpleEventPublisher.publish"

\* C30: publish(event_type, data) calls the handlers subscribed to that
\* type, each once per subscription and in subscription order, and no
\* other; also when a handler raises, and when a handler unsubscribes
\* itself or another handler of the type while publish runs: then no
\* handler that remains subscribed is skipped.  publish raises nothing.
C30_PublishReachesEveryHandler ==
    JustPublished =>
        LET e == events[1]
        IN  /\ out.value = Nothing
            /\ IsSubsequence(e.invoked, e.subscribed)
            /\ \A h \in Handlers :
                   Count(h, e.invoked) >= Count(h, subscribers[e.type])

\* the controller's calculate_age has just returned to its caller
CalculateAgeReturned ==
    ctl = "idle" /\ out.fn = "MainController.calculate_age"

\* C26: under any sequence of calculate_age, clear_form and clear_history
\* of the controller, the calculation history is as long as the number of
\* results its repository stores: a successful calculation adds one to
\* both, clear_history empties both, clear_form changes neither.
C26_HistoryMatchesRepository ==
    /\ [](Len(view.calculation_history) = Len(storage))
    /\ [][(ctl' = "idle" /\ out'.fn = "MainController.calculate_age"
              /\ view'.state = "SUCCESS") =>
                /\ Len(view'.calculation_history)
                       = Len(view.calculation_history) + 1
                /\ Len(storage') = Len(storage) + 1]_vars
    /\ [][out'.fn = "MainController.clear_history" =>
                /\ view'.calculation_history = <<>>
                /\ storage' = <<>>]_vars
    /\ [][out'.fn = "MainController.clear_form" =>
                /\ view'.calculation_history = view.calculation_history
                /\ storage' = storage]_vars

C26_Witness ==
    /\ out.fn = "MainController.clear_form"
    /\ Len(view.calculation_history) = 2
    /\ Len(storage) = 2

C26_WitnessCleared ==
    /\ out.fn = "MainController.clear_history"
    /\ uuids = 2
    /\ storage = <<>>

\* C27: a calculate_age call of the controller that ends in an error leaves
\* the repository and the calculation history as they were, at every step
\* from its start to its return, and publishes no calculation.completed.
C27_FailureChangesNothing ==
    /\ [][(out'.fn = "MainController.calculate_age"
              /\ view'.state # "SUCCESS") =>
                /\ storage' = storage
                /\ heap' = heap
                /\ file' = file
                /\ view'.calculation_history = view.calculation_history]_vars
    /\ []((CalculateAgeReturned /\ view.state = "ERROR") =>
              \A i \in 1..Len(events) :
                  events[i].type # CALCULATION_COMPLETED)

\* a calculation failed in the service after another had been stored
C27_Witness ==
    /\ CalculateAgeReturned
    /\ view.state = "ERROR"
    /\ pc[MainCaller] = "raised"
    /\ view.error.field_name = Nothing
    /\ Len(storage) = 1
    /\ Len(view.calculation_history) = 1

\* C28: when calculate_age of the controller has returned, the view state
\* is SUCCESS or ERROR, never LOADING; at all times ERROR goes with no
\* result and a non-empty error message, and SUCCESS with a result and a
\* cleared error; after clear_form the state is IDLE with no result and no
\* error.
C28_ViewStates ==
    /\ CalculateAgeReturned => view.state \in {"SUCCESS", "ERROR"}
    /\ view.state = "ERROR" =>
           /\ view.result = Nothing
           /\ view.error.message.text # ""
    /\ view.state = "SUCCESS" =>
           /\ view.result # Nothing
           /\ view.error = ErrorViewModel
    /\ out.fn = "MainController.clear_form" =>
           /\ view.state = "IDLE"
           /\ view.result = Nothing
           /\ view.error = ErrorViewModel

\* an error shown after a success had been shown
C28_Witness ==
    /\ CalculateAgeReturned
    /\ view.state = "ERROR"
    /\ view.calculation_history # <<>>

C28_WitnessCleared ==
    /\ out.fn = "MainController.clear_form"
    /\ view.calculation_history # <<>>

\* the event that ends a call with the view as it is
TerminalEvent ==
    IF view.state = "SUCCESS" THEN CALCULATION_COMPLETED
    ELSE IF view.error.field_name # Nothing THEN VALIDATION_FAILED
    ELSE CALCULATION_FAILED

\* C29: every calculate_age call of the controller publishes
\* calculation.started first and then exactly one of
\* calculation.completed, validation.failed and calculation.failed, the
\* one of its outcome: nothing is published before calculation.started,
\* nothing between it and the terminal event, and never a second terminal
\* event.
C29_StartedThenOneTerminal ==
    /\ ctl = "in_service" =>
           /\ Len(events) = 1
           /\ events[1].type = CALCULATION_STARTED
    /\ CalculateAgeReturned =>
           /\ Len(events) = 2
           /\ events[1].type = CALCULATION_STARTED
           /\ events[2].type = TerminalEvent

C29_Witness ==
    /\ CalculateAgeReturned
    /\ events[2].type = CALCULATION_FAILED
    /\ events[2].invoked = <<"print">>

C29_WitnessCompleted ==
    /\ CalculateAgeReturned
    /\ events[2].type = CALCULATION_COMPLETED

C29_WitnessValidation ==
    /\ CalculateAgeReturned
    /\ events[2].type = VALIDATION_FAILED
    /\ pc[MainCaller] = "raised"

\* the step left no trace of a call of the service
ServiceNotCalled ==
    /\ ctl' = "idle"
    /\ pc' = pc
    /\ call' = call
    /\ effects' = effects
    /\ uuids' = uuids

\* the view after the step shows an error with a message, on this field
ErrorShownOn(field_name) ==
    /\ view'.state = "ERROR"
    /\ view'.error.message.text # ""
    /\ view'.error.field_name = field_name

\* C24: calculate_age of the controller turns every failure into an error
\* of the view: a blank name into one on the field "name", and otherwise a
\* blank age or an age that is no integer into one on the field "age",
\* none of the three calling the service; a NameValidationException of the
\* service into one on "name", an AgeValidationException into one on
\* "age", any other exception into one on no field; the error message is
\* never empty.
C24_FailureMapping ==
    /\ [][\A name \in ControllerNames,
              age \in AppAgeTexts \cup {<<" ">>, <<" ", "3">>} :
            /\ (IsBlank(name) /\ ControllerCalculateAge(name, age)) =>
                   ErrorShownOn(Some("name")) /\ ServiceNotCalled
            /\ ( /\ ~IsBlank(name)
                 /\ IsBlank(age) \/ int_parse(age).kind = "raise"
                 /\ ControllerCalculateAge(name, age) ) =>
                   ErrorShownOn(Some("age")) /\ ServiceNotCalled]_vars
    /\ [][(ctl = "in_service" /\ ctl' = "idle"
              /\ pc[MainCaller] = "raised") =>
                IF error[MainCaller].type = "NameValidationException"
                THEN ErrorShownOn(Some("name"))
                ELSE IF error[MainCaller].type = "AgeValidationException"
                THEN ErrorShownOn(Some("age"))
                ELSE ErrorShownOn(Nothing)]_vars

\* the service refused a name the controller had let through
C24_Witness ==
    /\ CalculateAgeReturned
    /\ pc[MainCaller] = "raised"
    /\ error[MainCaller].type = "NameValidationException"
    /\ view.error.field_name = Some("name")

C24_WitnessAge ==
    /\ CalculateAgeReturned
    /\ view.error.message.text = "Age must be a valid number"
    /\ view.error.field_name = Some("age")

C24_WitnessOther ==
    /\ CalculateAgeReturned
    /\ pc[MainCaller] = "raised"
    /\ error[MainCaller].type = "ValueError"
    /\ view.error.field_name = Nothing

\* the ids a repository holds, and its entry for an id it holds
Stored(entries) == {entries[i].id : i \in 1..Len(entries)}
EntryOf(entries, id) == entries[IndexOfId(entries, id)]
OnePerId(entries) ==
    \A i, j \in 1..Len(entries) : entries[i].id = entries[j].id => i = j

\* save put `entry` under its id and left every other entry as it was
Saved(before, after, entry) ==
    /\ Stored(after) = Stored(before) \cup {entry.id}
    /\ EntryOf(after, entry.id) = entry
    /\ \A id \in Stored(before) \ {entry.id} :
           EntryOf(after, id) = EntryOf(before, id)

\* delete took the id out, left every other entry as it was and returned
\* whether the id was there
Deleted(before, after, id, returned) ==
    /\ returned = Some(id \in Stored(before))
    /\ Stored(after) = Stored(before) \ {id}
    /\ \A other \in Stored(after) :
           EntryOf(after, other) = EntryOf(before, other)

\* the step is a call of this method of the repository
CalledInMemory(method) ==
    out'.fn = "InMemoryCalculationRepository." \o method
CalledFile(method) ==
    out'.fn = "FileBasedCalculationRepository." \o method

\* C23: for the in-memory and the file repository alike, under any
\* sequence of calls: save puts the result under its id, replacing the
\* entry of an id already stored, so that no id has two entries; delete
\* returns true exactly when the id was stored, takes it out and leaves
\* the other entries untouched; clear_all returns the number of entries
\* and leaves none; no other step changes what is stored; and get_by_id
\* returns a result exactly for an id that is stored, that is, saved and
\* not deleted or cleared since, while get_all returns one result per id.
C23_RepositoryContents ==
    /\ [](OnePerId(storage) /\ OnePerId(file))
    /\ [][\A ref \in Ids :
            /\ CalledInMemory("save") /\ InMemorySave(ref) =>
                   /\ Saved(storage, storage',
                            [id |-> heap[ref].id, ref |-> ref])
                   /\ out'.value = Some(heap[ref].id)
            /\ CalledFile("save") /\ FileSave(ref) =>
                   /\ Saved(file, file', to_dict(heap[ref]))
                   /\ out'.value = Some(heap[ref].id)]_vars
    /\ [][\A id \in Ids :
            /\ CalledInMemory("delete") /\ InMemoryDelete(id) =>
                   Deleted(storage, storage', id, out'.value)
            /\ CalledFile("delete") /\ FileDelete(id) =>
                   Deleted(file, file', id, out'.value)
            /\ CalledInMemory("get_by_id") /\ InMemoryGetById(id) =>
                   /\ (out'.value # Nothing) <=> (id \in Stored(storage))
                   /\ out'.value # Nothing => heap[out'.value[1]].id = id
            /\ CalledFile("get_by_id") /\ FileGetById(id) =>
                   /\ out'.value.kind = "return"
                   /\ (out'.value.value # Nothing) <=> (id \in Stored(file))
                   /\ out'.value.value # Nothing =>
                          out'.value.value[1].id = id]_vars
    /\ [][/\ CalledInMemory("clear_all") /\ InMemoryClearAll =>
               (out'.value = Some(Len(storage)) /\ storage' = <<>>)
          /\ CalledFile("clear_all") /\ FileClearAll =>
               (out'.value = Some(Len(file)) /\ file' = <<>>)
          /\ CalledInMemory("get_all") /\ InMemoryGetAll =>
               /\ Len(out'.value) = Cardinality(Stored(storage))
               /\ {heap[out'.value[i]].id : i \in 1..Len(out'.value)}
                      = Stored(storage)
          /\ CalledFile("get_all") /\ FileGetAll =>
               /\ out'.value.kind = "return"
               /\ Len(out'.value.value) = Cardinality(Stored(file))
               /\ {out'.value.value[i].id : i \in 1..Len(out'.value.value)}
                      = Stored(file)]_vars
    /\ [][/\ storage' # storage =>
               out'.fn \in {"InMemoryCalculationRepository.save",
                            "InMemoryCalculationRepository.delete",
                            "InMemoryCalculationRepository.clear_all",
                            "MainController.calculate_age",
                            "MainController.clear_history"}
          /\ file' # file =>
               out'.fn \in {"FileBasedCalculationRepository.save",
                            "FileBasedCalculationRepository.delete",
                            "FileBasedCalculationRepository.clear_all"}]_vars

\* a result saved twice in the file, its neighbour deleted, found again
C23_Witness ==
    /\ out.fn = "FileBasedCalculationRepository.get_by_id"
    /\ out.value.kind = "return"
    /\ out.value.value # Nothing
    /\ Len(file) = 1
    /\ Len(heap) = 2
    /\ file[1].id = 2

C23_WitnessDeleted ==
    /\ out.fn = "InMemoryCalculationRepository.delete"
    /\ out.value = Some(TRUE)
    /\ Len(storage) = 1

C23_WitnessCleared ==
    /\ out.fn = "InMemoryCalculationRepository.clear_all"
    /\ out.value = Some(2)

====
